---- MODULE Spec2Model ----
(***************************************************************************)
(* Model of the provider-abstracting chat sampler of ags/agent/lib/        *)
(* sampler.js: the OpenAI and Claude variants of chat and chatStream, the  *)
(* translation of a caller's request into each vendor's request, and the   *)
(* normalisation of the vendor's reply.                                    *)
(*                                                                         *)
(* JavaScript values are modelled as follows.  A string is a sequence of   *)
(* one-character strings, so that concatenation is \o and a regular        *)
(* expression is matched character by character.  An object is a record;   *)
(* an absent (undefined) property is an absent field, tested with Has.     *)
(* A value that may have more than one JavaScript type carries a tag:      *)
(* [str |-> s] a string, [arr |-> a] an array, [null |-> TRUE] null.       *)
(***************************************************************************)
EXTENDS Integers, Sequences, FiniteSets, TLC

VARIABLES
    sampler,    \* the sampler instance the calls are made on
    fixture,    \* the vendor's scripted reply: a sequence of content blocks
    calls,      \* the chat / chatStream calls made so far, in call order
    treq,       \* translation specification: the caller's request
    tsent,      \* translation specification: the vendor requests built from treq
    img,        \* image specification: the Image part {data, mediaType}
    imgOut,     \* image specification: the translations of img made so far
    env,        \* process.env: an unset variable is an absent field
    instances,  \* the sampler instances constructed so far, by identity
    clients,    \* the vendor clients constructed so far, by identity
    created,    \* the Sampler.create calls made so far, with their outcomes
    template,   \* prompt specification: the template to render
    variables,  \* prompt specification: the variables object
    rendered,   \* prompt specification: the renderings made so far
    loaded,     \* getPrompt: what loadPrompts finds, a YAML document or a failure
    promptName, \* getPrompt: the dotted prompt name asked for
    got,        \* getPrompt: the outcomes of the calls made so far
    tafter,     \* translation specification: the caller's request as the calls left it
    shared,     \* the variables a module's handlers share: an unassigned one is absent
    requests    \* the HTTP requests received so far, with their handlers' positions

factoryVars == <<env, instances, clients, created>>
promptVars == <<template, variables, rendered>>
getVars == <<loaded, promptName, got>>
webVars == <<shared, requests>>
appVars == <<getVars, tafter, webVars>>

vars == <<sampler, fixture, calls, treq, tsent, img, imgOut, factoryVars, promptVars,
          appVars>>

-----------------------------------------------------------------------------
(* Bounds of the model *)

MaxCalls == 1      \* calls in flight on the one sampler instance
MaxBlocks == 2     \* content blocks of the vendor's scripted reply
MaxMsgs == 2       \* messages of a request in the translation specification
MaxAtoms == 2      \* lexical atoms of a media type or of image data
MaxAfterEnd == 1   \* requests a consumer makes after the sequence has ended
MaxCreates == 2    \* creations of a sampler in the factory specification
MaxInFlight == 2   \* calls in flight at once in the concurrency specification
MaxPieces == 3     \* pieces a prompt template is put together from
MaxKeys == 3       \* keys of a dotted prompt name
MaxRequests == 2   \* HTTP requests in flight at once

-----------------------------------------------------------------------------
(* JavaScript helpers *)

Empty == [f \in {} |-> 0]                    \* the object {}
Has(o, f) == f \in DOMAIN o                  \* o.f !== undefined
Truthy(s) == Len(s) > 0                      \* a string is truthy iff non-empty

RECURSIVE Join(_)
Join(ss) == IF ss = <<>> THEN <<>> ELSE Head(ss) \o Join(Tail(ss))

\* array.filter(block => block.type === 'text')
RECURSIVE TextBlocksOf(_)
TextBlocksOf(blocks) ==
    IF blocks = <<>> THEN <<>>
    ELSE (IF Head(blocks).type = "text" THEN <<Head(blocks)>> ELSE <<>>)
         \o TextBlocksOf(Tail(blocks))

SeqsUpTo(S, n) == UNION {[1..k -> S] : k \in 0..n}

IsPrefix(p, s) == Len(p) <= Len(s) /\ SubSeq(s, 1, Len(p)) = p

StartsWith(s, p) == IsPrefix(p, s)

\* Index of the first element of s equal to ch, 0 when there is none
FirstIndex(s, ch) ==
    IF \E i \in 1..Len(s) : s[i] = ch
    THEN CHOOSE i \in 1..Len(s) : s[i] = ch /\ \A j \in 1..(i - 1) : s[j] # ch
    ELSE 0

-----------------------------------------------------------------------------
(* Provider constants and defaults *)

PROVIDERS_OPENAI == "openai"
PROVIDERS_CLAUDE == "claude"

DEFAULT_MODELS(provider) ==
    IF provider = PROVIDERS_OPENAI THEN "gpt-4o-mini" ELSE "claude-sonnet-4-20250514"

DefaultMaxTokens == 1024

\* o.f || dflt for a number (undefined and 0 are falsy)
OrNum(o, f, dflt) == IF Has(o, f) /\ o[f] # 0 THEN o[f] ELSE dflt

\* o.f || dflt for a name such as a model (undefined and "" are falsy)
OrName(o, f, dflt) == IF Has(o, f) /\ o[f] # "" THEN o[f] ELSE dflt

\* Mutant: the constructor ignores the maxTokens of its config
BaseSamplerDefaultOnly(options) == [maxTokens |-> DefaultMaxTokens]

BaseSampler(options) ==
    [maxTokens |-> OrNum(options, "maxTokens", DefaultMaxTokens)]

OpenAISampler(options) ==
    BaseSampler(options) @@
    [provider |-> PROVIDERS_OPENAI,
     model    |-> OrName(options, "model", DEFAULT_MODELS(PROVIDERS_OPENAI))]

ClaudeSampler(options) ==
    BaseSampler(options) @@
    [provider |-> PROVIDERS_CLAUDE,
     model    |-> OrName(options, "model", DEFAULT_MODELS(PROVIDERS_CLAUDE))]

-----------------------------------------------------------------------------
(* Translation of message content.  A content part is a record with a      *)
(* type and, when present, text, source {media_type, data} and image_url   *)
(* {url}.                                                                  *)

ImageJpeg == <<"i","m","a","g","e","/","j","p","e","g">>
DataPrefix == <<"d","a","t","a",":">>
Base64Marker == <<";","b","a","s","e","6","4",",">>

\* The characters the regular expression's "." does not match
LineTerminators == {"\n", "\r"}

IsImageType(item) == item.type = "image" \/ item.type = "image_url"

\* Mutant: the text block is built without its text
TextBlockEmpty(item) == [type |-> "text"]

\* { type: 'text', text: item.text }
TextBlock(item) ==
    [type |-> "text"] @@ (IF Has(item, "text") THEN [text |-> item.text] ELSE Empty)

\* Mutant: the media type of an undeclared image is taken to be image/png
MediaTypeOfDefaultPng(source) ==
    IF Has(source, "media_type") /\ Truthy(source.media_type)
    THEN source.media_type ELSE <<"i","m","a","g","e","/","p","n","g">>

\* item.source.media_type || 'image/jpeg'
MediaTypeOf(source) ==
    IF Has(source, "media_type") /\ Truthy(source.media_type)
    THEN source.media_type ELSE ImageJpeg

\* `data:${media_type};base64,${data}`
DataUrl(source) == DataPrefix \o MediaTypeOf(source) \o Base64Marker \o source.data

OpenAISampler_formatItem(item) ==
    IF item.type = "text" THEN TextBlock(item)
    ELSE IF IsImageType(item)
              /\ Has(item, "source") /\ Has(item.source, "data")
              /\ Truthy(item.source.data)
    THEN [type |-> "image_url", image_url |-> [url |-> DataUrl(item.source)]]
    ELSE IF IsImageType(item) /\ Has(item, "image_url")
    THEN [type |-> "image_url", image_url |-> item.image_url]
    ELSE item

OpenAISampler_formatMessage(msg) ==
    IF Has(msg.content, "str") THEN [role |-> msg.role, content |-> msg.content]
    ELSE IF Has(msg.content, "arr")
    THEN [role |-> msg.role,
          content |-> [arr |-> [i \in 1..Len(msg.content.arr) |->
                                   OpenAISampler_formatItem(msg.content.arr[i])]]]
    ELSE [role |-> msg.role, content |-> msg.content]

\* url.match(/^data:([^;]+);base64,(.+)$/) for a url that starts with 'data:':
\* <<>> when there is no match, else <<[media_type, data]>>.  The first group
\* holds no ';' and is followed by one, so it ends at the first ';'.
DataUrlMatch(url) ==
    LET rest == SubSeq(url, Len(DataPrefix) + 1, Len(url))
        j    == FirstIndex(rest, ";")
        k    == j + Len(Base64Marker)
        tail == SubSeq(rest, k, Len(rest))
    IN  IF /\ j >= 2
           /\ Len(rest) >= k
           /\ SubSeq(rest, j, k - 1) = Base64Marker
           /\ \A i \in 1..Len(tail) : tail[i] \notin LineTerminators
        THEN <<[media_type |-> SubSeq(rest, 1, j - 1), data |-> tail]>>
        ELSE <<>>

ClaudeSampler_formatItem(item) ==
    IF item.type = "text" THEN TextBlock(item)
    ELSE IF IsImageType(item) /\ Has(item, "source")
    THEN [type |-> "image",
          source |-> [type |-> "base64", media_type |-> MediaTypeOf(item.source)]
                     @@ (IF Has(item.source, "data")
                         THEN [data |-> item.source.data] ELSE Empty)]
    ELSE IF IsImageType(item)
              /\ Has(item, "image_url") /\ Has(item.image_url, "url")
              /\ Truthy(item.image_url.url)
    THEN LET url     == item.image_url.url
             matches == IF StartsWith(url, DataPrefix) THEN DataUrlMatch(url) ELSE <<>>
         IN  IF matches # <<>>
             THEN [type |-> "image",
                   source |-> [type |-> "base64",
                               media_type |-> matches[1].media_type,
                               data |-> matches[1].data]]
             ELSE [type |-> "image", source |-> [type |-> "url", url |-> url]]
    ELSE item

ClaudeSampler_formatMessage(msg) ==
    IF Has(msg.content, "str") THEN [role |-> msg.role, content |-> msg.content]
    ELSE IF Has(msg.content, "arr")
    THEN [role |-> msg.role,
          content |-> [arr |-> [i \in 1..Len(msg.content.arr) |->
                                   ClaudeSampler_formatItem(msg.content.arr[i])]]]
    ELSE [role |-> msg.role, content |-> msg.content]

-----------------------------------------------------------------------------
(* The request each variant sends to its vendor client.  params is the     *)
(* caller's { systemPrompt, messages, options = {} }.                      *)

OptionsOf(params) == IF Has(params, "options") THEN params.options ELSE Empty

HasSystemPrompt(params) == Has(params, "systemPrompt") /\ Truthy(params.systemPrompt)

Temperature(options) ==
    IF Has(options, "temperature") THEN [temperature |-> options.temperature] ELSE Empty

\* Mutant: the system entry is pushed after the messages, not before them
OpenAIMessagesSystemLast(params) ==
    [i \in 1..Len(params.messages) |-> OpenAISampler_formatMessage(params.messages[i])]
    \o (IF HasSystemPrompt(params)
        THEN <<[role |-> "system", content |-> [str |-> params.systemPrompt]]>>
        ELSE <<>>)

\* formattedMessages of OpenAISampler.chat and chatStream
OpenAIMessages(params) ==
    (IF HasSystemPrompt(params)
     THEN <<[role |-> "system", content |-> [str |-> params.systemPrompt]]>>
     ELSE <<>>)
    \o [i \in 1..Len(params.messages) |-> OpenAISampler_formatMessage(params.messages[i])]

OpenAIChatRequest(self, params) ==
    LET options == OptionsOf(params)
    IN  [model      |-> OrName(options, "model", self.model),
         max_tokens |-> OrNum(options, "maxTokens", self.maxTokens),
         messages   |-> OpenAIMessages(params)]
        @@ Temperature(options)
        @@ (IF Has(options, "store") THEN [store |-> options.store] ELSE Empty)

OpenAIStreamRequest(self, params) ==
    LET options == OptionsOf(params)
    IN  [model      |-> OrName(options, "model", self.model),
         max_tokens |-> OrNum(options, "maxTokens", self.maxTokens),
         messages   |-> OpenAIMessages(params),
         stream     |-> TRUE]
        @@ Temperature(options)

\* formattedMessages of ClaudeSampler.chat and chatStream
ClaudeMessages(params) ==
    [i \in 1..Len(params.messages) |-> ClaudeSampler_formatMessage(params.messages[i])]

ClaudeChatRequest(self, params) ==
    LET options == OptionsOf(params)
    IN  [model      |-> OrName(options, "model", self.model),
         max_tokens |-> OrNum(options, "maxTokens", self.maxTokens),
         messages   |-> ClaudeMessages(params)]
        @@ (IF HasSystemPrompt(params) THEN [system |-> params.systemPrompt] ELSE Empty)
        @@ Temperature(options)

\* Mutant: chatStream sends the instance's model whatever the request's
ClaudeStreamRequestInstanceModel(self, params) ==
    LET options == OptionsOf(params)
    IN  [model      |-> self.model,
         max_tokens |-> OrNum(options, "maxTokens", self.maxTokens),
         messages   |-> ClaudeMessages(params),
         stream     |-> TRUE]
        @@ (IF HasSystemPrompt(params) THEN [system |-> params.systemPrompt] ELSE Empty)
        @@ Temperature(options)

ClaudeStreamRequest(self, params) ==
    LET options == OptionsOf(params)
    IN  [model      |-> OrName(options, "model", self.model),
         max_tokens |-> OrNum(options, "maxTokens", self.maxTokens),
         messages   |-> ClaudeMessages(params),
         stream     |-> TRUE]
        @@ (IF HasSystemPrompt(params) THEN [system |-> params.systemPrompt] ELSE Empty)
        @@ Temperature(options)

\* Mutant: the OpenAI variant puts the system entry in front of the caller's
\* own list of messages
ParamsAfterSystemPushed(self, params) ==
    IF self.provider = PROVIDERS_OPENAI /\ HasSystemPrompt(params)
    THEN [params EXCEPT !.messages =
             <<[role |-> "system", content |-> [str |-> params.systemPrompt]]>> \o @]
    ELSE params

\* The caller's { systemPrompt, messages, options } after chat or chatStream
\* has built its request: the parameters are destructured and read, the
\* entries are pushed on the local formattedMessages (or mapped into it),
\* _formatMessage returns new objects, and nothing is assigned to a field of
\* the request, of a message or of a part
ParamsAfter(self, params) == params

ChatRequest(self, params) ==
    IF self.provider = PROVIDERS_OPENAI
    THEN OpenAIChatRequest(self, params) ELSE ClaudeChatRequest(self, params)

StreamRequest(self, params) ==
    IF self.provider = PROVIDERS_OPENAI
    THEN OpenAIStreamRequest(self, params) ELSE ClaudeStreamRequest(self, params)

-----------------------------------------------------------------------------
(* The vendor clients.  The vendor replies from a script, the fixture: a   *)
(* sequence of content blocks, each a text block or a tool_use block.  The *)
(* same fixture is delivered as one response to a chat request and as a    *)
(* stream of events to a streaming request.                                *)

TextA == <<"a">>
TextB == <<"b">>

FixtureBlocks ==
    {[type |-> "text", text |-> TextA], [type |-> "text", text |-> TextB],
     [type |-> "tool_use"]}

Fixtures == SeqsUpTo(FixtureBlocks, MaxBlocks)

\* The failures a vendor client raises: transport, authentication
VendorErrors == {[name |-> "APIConnectionError"], [name |-> "AuthenticationError"]}

IsTextBlock(block) == block.type = "text"
TextOf(block) == block.text

\* blocks.map(block => block.text)
TextsOf(blocks) == [i \in 1..Len(blocks) |-> TextOf(blocks[i])]

\* The text of the fixture, as the vendor has it
FixtureText(fx) == Join(TextsOf(TextBlocksOf(fx)))

\* The OpenAI chat completion for the fixture: one choice, whose content
\* (string | null) is null when the reply holds other content and no text
OpenAIResponse(fx, request) ==
    [choices |-> <<[message |->
                      [role |-> "assistant",
                       content |-> IF fx # <<>> /\ TextBlocksOf(fx) = <<>>
                                   THEN [null |-> TRUE]
                                   ELSE [str |-> FixtureText(fx)]],
                    finish_reason |-> "stop"]>>,
     model   |-> request.model,
     usage   |-> [prompt_tokens |-> Len(request.messages), completion_tokens |-> Len(fx)]]

\* The Anthropic message for the fixture
ClaudeResponse(fx, request) ==
    [content     |-> fx,
     model       |-> request.model,
     stop_reason |-> "end_turn",
     usage       |-> [input_tokens |-> Len(request.messages), output_tokens |-> Len(fx)]]

OpenAIChunkOf(block) ==
    IF IsTextBlock(block)
    THEN [choices |-> <<[delta |-> [content |-> block.text]]>>]
    ELSE [choices |-> <<[delta |-> [tool_calls |-> TRUE]]>>]

\* The OpenAI chunks for the fixture: a role chunk with empty content, one
\* chunk per block, a finishing chunk with an empty delta, a choice with no
\* delta, a usage chunk with no choices
OpenAIChunks(fx) ==
    <<[choices |-> <<[delta |-> [role |-> "assistant", content |-> <<>>]]>>]>>
    \o [i \in 1..Len(fx) |-> OpenAIChunkOf(fx[i])]
    \o <<[choices |-> <<[delta |-> Empty, finish_reason |-> "stop"]>>],
         [choices |-> <<[finish_reason |-> "stop"]>>],
         [choices |-> <<>>]>>

ClaudeEventsOf(block) ==
    <<[type |-> "content_block_start"],
      IF IsTextBlock(block)
      THEN [type |-> "content_block_delta",
            delta |-> [type |-> "text_delta", text |-> block.text]]
      ELSE [type |-> "content_block_delta",
            delta |-> [type |-> "input_json_delta", partial_json |-> TRUE]],
      [type |-> "content_block_stop"]>>

\* The Anthropic events for the fixture
ClaudeEvents(fx) ==
    <<[type |-> "message_start"]>>
    \o Join([i \in 1..Len(fx) |-> ClaudeEventsOf(fx[i])])
    \o <<[type |-> "message_delta", delta |-> [stop_reason |-> "end_turn"]],
         [type |-> "message_stop"]>>

VendorResponse(provider, fx, request) ==
    IF provider = PROVIDERS_OPENAI
    THEN OpenAIResponse(fx, request) ELSE ClaudeResponse(fx, request)

VendorEvents(provider, fx) ==
    IF provider = PROVIDERS_OPENAI THEN OpenAIChunks(fx) ELSE ClaudeEvents(fx)

-----------------------------------------------------------------------------
(* Normalisation of the vendor's reply *)

TypeError == [name |-> "TypeError"]

\* The return statement of OpenAISampler.chat: [value |-> r], or
\* [error |-> e] when evaluating it throws
OpenAIChatResult(response) ==
    IF response.choices = <<>>
    THEN [error |-> TypeError]
    ELSE [value |->
            [text  |-> response.choices[1].message.content,
             usage |-> [inputTokens  |-> response.usage.prompt_tokens,
                        outputTokens |-> response.usage.completion_tokens],
             model |-> response.model,
             raw   |-> response]]

RECURSIVE JoinWith(_, _)
JoinWith(ss, sep) ==
    IF ss = <<>> THEN <<>>
    ELSE IF Len(ss) = 1 THEN Head(ss)
    ELSE Head(ss) \o sep \o JoinWith(Tail(ss), sep)

\* Mutant: the text blocks are joined with a space, .join(' ')
ClaudeChatResultSpaced(response) ==
    [value |->
        [text  |-> [str |-> JoinWith(TextsOf(TextBlocksOf(response.content)),
                                     <<" ">>)],
         usage |-> [inputTokens  |-> response.usage.input_tokens,
                    outputTokens |-> response.usage.output_tokens],
         model |-> response.model,
         stopReason |-> response.stop_reason,
         raw   |-> response]]

\* The text extraction and return statement of ClaudeSampler.chat
ClaudeChatResult(response) ==
    [value |->
        [text  |-> [str |-> Join(TextsOf(TextBlocksOf(response.content)))],
         usage |-> [inputTokens  |-> response.usage.input_tokens,
                    outputTokens |-> response.usage.output_tokens],
         model |-> response.model,
         stopReason |-> response.stop_reason,
         raw   |-> response]]

ChatResult(provider, response) ==
    IF provider = PROVIDERS_OPENAI
    THEN OpenAIChatResult(response) ELSE ClaudeChatResult(response)

\* Mutant: every chunk with a first choice yields, a chunk without text an
\* empty fragment
OpenAIDeltaEveryChoice(chunk) ==
    IF chunk.choices = <<>> THEN <<>>
    ELSE IF /\ Has(chunk.choices[1], "delta")
            /\ Has(chunk.choices[1].delta, "content")
         THEN <<chunk.choices[1].delta.content>> ELSE <<<<>>>>

\* Mutant: every content_block_delta event yields, one without text an
\* empty fragment
ClaudeDeltaEveryDelta(event) ==
    IF event.type # "content_block_delta" THEN <<>>
    ELSE IF Has(event, "delta") /\ Has(event.delta, "text")
         THEN <<event.delta.text>> ELSE <<<<>>>>

\* chunk.choices[0]?.delta?.content, when truthy: <<fragment>>, else <<>>
OpenAIDelta(chunk) ==
    IF /\ chunk.choices # <<>>
       /\ Has(chunk.choices[1], "delta")
       /\ Has(chunk.choices[1].delta, "content")
       /\ Truthy(chunk.choices[1].delta.content)
    THEN <<chunk.choices[1].delta.content>> ELSE <<>>

\* event.type === 'content_block_delta' && event.delta?.text
ClaudeDelta(event) ==
    IF /\ event.type = "content_block_delta"
       /\ Has(event, "delta")
       /\ Has(event.delta, "text")
       /\ Truthy(event.delta.text)
    THEN <<event.delta.text>> ELSE <<>>

\* What one iteration of the for-await loop yields for an event: <<>> or <<text>>
Delta(provider, event) ==
    IF provider = PROVIDERS_OPENAI THEN OpenAIDelta(event) ELSE ClaudeDelta(event)

-----------------------------------------------------------------------------
(* The calls.  A call is a record:                                         *)
(*   op       "chat" or "chatStream"                                       *)
(*   params   the caller's request                                         *)
(*   pc       where the call is: "awaitCreate" awaiting the vendor's       *)
(*            create; "suspendedStart" a generator not yet started;        *)
(*            "awaitEvent" awaiting the stream's next event;               *)
(*            "suspendedYield" suspended at its yield; "completed"         *)
(*   sent     the requests the call has passed to the vendor's create      *)
(*   result   what the caller has of the call: pending, a value, an error, *)
(*            done (the sequence is exhausted), returned (the sequence     *)
(*            was closed by the consumer)                                  *)
(*   raised   the failure the vendor raised to this call, if any           *)
(*   stream   the vendor stream: "none", "open" or "closed"               *)
(*   pos      the number of vendor events read from the stream             *)
(*   yielded  the fragments delivered to the consumer, in order            *)
(*   afterEnd  the requests made after the sequence ended                  *)
(*   requested the fragments the consumer has requested (its next() calls) *)

Pending == [kind |-> "pending"]

NewCall(op, params) ==
    [op |-> op, params |-> params, pc |-> "suspendedStart", sent |-> <<>>,
     result |-> Pending, raised |-> <<>>, stream |-> "none", pos |-> 0,
     yielded |-> <<>>, afterEnd |-> 0, requested |-> 0]

\* chat up to its await of create: the request is built and sent
ChatSend(self, call) ==
    [call EXCEPT !.pc = "awaitCreate",
                 !.sent = Append(@, ChatRequest(self, call.params))]

\* chatStream from its start to its await of create
StreamSend(self, call) ==
    [call EXCEPT !.pc = "awaitCreate",
                 !.sent = Append(@, StreamRequest(self, call.params))]

\* chat after create has resolved with response
ChatReturn(self, call, response) ==
    LET r == ChatResult(self.provider, response)
    IN  [call EXCEPT !.pc = "completed",
                     !.result = IF Has(r, "value")
                                THEN [kind |-> "value", value |-> r.value]
                                ELSE [kind |-> "error", error |-> r.error]]

\* Mutant: a catch that rethrows a fresh error and drops the vendor's
CreateThrowsGeneric(call, e) ==
    [call EXCEPT !.pc = "completed",
                 !.result = [kind |-> "error", error |-> [name |-> "Error"]]]

\* Mutant: a catch that returns a response with empty text
CreateThrowsDefault(call, e) ==
    [call EXCEPT !.pc = "completed",
                 !.result = [kind |-> "value",
                             value |-> [text |-> [str |-> <<>>], usage |-> Empty,
                                        model |-> "", raw |-> Empty]]]

\* Mutant: a catch that sends the request again
CreateThrowsRetry(call, e) ==
    [call EXCEPT !.sent = Append(@, @[Len(@)])]

\* chat or chatStream when its await of create throws e: nothing catches it
CreateThrows(call, e) ==
    [call EXCEPT !.pc = "completed", !.result = [kind |-> "error", error |-> e]]

\* Mutant: the fragments are delivered latest first
LoopBodyLatestFirst(self, call, event) ==
    LET d == Delta(self.provider, event)
    IN  IF d # <<>>
        THEN [call EXCEPT !.pc = "suspendedYield", !.yielded = <<d[1]>> \o @,
                          !.pos = @ + 1]
        ELSE [call EXCEPT !.pc = "awaitEvent", !.pos = @ + 1]

\* One iteration of the for-await loop, for the event the stream delivered
LoopBody(self, call, event) ==
    LET d == Delta(self.provider, event)
    IN  IF d # <<>>
        THEN [call EXCEPT !.pc = "suspendedYield", !.yielded = Append(@, d[1]),
                          !.pos = @ + 1]
        ELSE [call EXCEPT !.pc = "awaitEvent", !.pos = @ + 1]

\* Mutant: a sequence that starts over when it is asked again after its end
LoopExhaustedRestartable(call) ==
    [call EXCEPT !.pc = "suspendedStart", !.result = [kind |-> "done"]]

\* The for-await loop when the stream is exhausted: the generator returns
LoopExhausted(call) ==
    [call EXCEPT !.pc = "completed", !.result = [kind |-> "done"]]

\* Mutant: a catch around the loop that ends the sequence quietly
LoopThrowsQuiet(call, e) ==
    [call EXCEPT !.pc = "completed", !.result = [kind |-> "done"]]

\* The for-await loop when the stream's next() throws e: the generator throws
LoopThrows(call, e) ==
    [call EXCEPT !.pc = "completed", !.result = [kind |-> "error", error |-> e]]

\* Mutant: a loop over stream.next() by hand, which return() leaves open
GeneratorReturnLeaks(call) ==
    [call EXCEPT !.pc = "completed", !.result = [kind |-> "returned"]]

\* return() on the generator.  Suspended at the yield inside the for-await
\* loop, the loop closes the stream's iterator before the generator completes.
GeneratorReturn(call) ==
    [call EXCEPT !.pc = "completed", !.result = [kind |-> "returned"],
                 !.stream = IF @ = "open" THEN "closed" ELSE @]

-----------------------------------------------------------------------------
(* Specification Spec: calls on one sampler instance *)

UserMessage == [role |-> "user", content |-> [str |-> <<"q">>]]

\* The request of the integration test
CallRequests ==
    {[systemPrompt |-> <<"S">>, messages |-> <<UserMessage>>,
      options |-> [maxTokens |-> 50]]}

CallIds == 1..Len(calls)

NoFactory == env = Empty /\ instances = <<>> /\ clients = <<>> /\ created = <<>>

\* No call has touched the caller's request
Untouched == tafter = treq

NoWeb == shared = Empty /\ requests = <<>>

NoApp == loaded = Empty /\ promptName = <<>> /\ got = <<>> /\ Untouched /\ NoWeb

NoPrompt == template = <<>> /\ variables = Empty /\ rendered = <<>> /\ NoApp

Idle ==
    /\ treq = Empty /\ tsent = Empty /\ img = Empty /\ imgOut = <<>>
    /\ NoFactory /\ NoPrompt

Init ==
    /\ sampler \in {OpenAISampler(Empty), ClaudeSampler(Empty)}
    /\ fixture \in Fixtures
    /\ calls = <<>>
    /\ Idle

\* The caller calls sampler.chat(params)
CallChat(params) ==
    /\ Len(calls) < MaxCalls
    /\ calls' = Append(calls, ChatSend(sampler, NewCall("chat", params)))
    /\ UNCHANGED <<factoryVars, promptVars, appVars, sampler, fixture, treq, tsent, img, imgOut>>

\* The caller calls sampler.chatStream(params): a generator, not yet started
CallChatStream(params) ==
    /\ Len(calls) < MaxCalls
    /\ calls' = Append(calls, NewCall("chatStream", params))
    /\ UNCHANGED <<factoryVars, promptVars, appVars, sampler, fixture, treq, tsent, img, imgOut>>

\* The consumer requests the first fragment
ConsumerFirstNext(c) ==
    /\ calls[c].op = "chatStream" /\ calls[c].pc = "suspendedStart"
    /\ calls' = [calls EXCEPT ![c] = StreamSend(sampler, [@ EXCEPT !.requested = @ + 1])]
    /\ UNCHANGED <<factoryVars, promptVars, appVars, sampler, fixture, treq, tsent, img, imgOut>>

\* The vendor's create resolves with the response to a chat request
VendorResponds(c) ==
    /\ calls[c].op = "chat" /\ calls[c].pc = "awaitCreate"
    /\ calls' = [calls EXCEPT ![c] =
                    ChatReturn(sampler, @,
                               VendorResponse(sampler.provider, fixture, @.sent[Len(@.sent)]))]
    /\ UNCHANGED <<factoryVars, promptVars, appVars, sampler, fixture, treq, tsent, img, imgOut>>

\* The vendor's create resolves with a stream, and the loop asks for an event
VendorOpensStream(c) ==
    /\ calls[c].op = "chatStream" /\ calls[c].pc = "awaitCreate"
    /\ calls' = [calls EXCEPT ![c].stream = "open", ![c].pc = "awaitEvent"]
    /\ UNCHANGED <<factoryVars, promptVars, appVars, sampler, fixture, treq, tsent, img, imgOut>>

\* The vendor's create fails
VendorRejects(c, e) ==
    /\ calls[c].pc = "awaitCreate"
    /\ calls' = [calls EXCEPT ![c] = CreateThrows([@ EXCEPT !.raised = <<e>>], e)]
    /\ UNCHANGED <<factoryVars, promptVars, appVars, sampler, fixture, treq, tsent, img, imgOut>>

\* The vendor stream delivers its next event
StreamDelivers(c) ==
    /\ calls[c].pc = "awaitEvent" /\ calls[c].stream = "open"
    /\ calls[c].pos < Len(VendorEvents(sampler.provider, fixture))
    /\ calls' = [calls EXCEPT ![c] =
                    LoopBody(sampler, @, VendorEvents(sampler.provider, fixture)[@.pos + 1])]
    /\ UNCHANGED <<factoryVars, promptVars, appVars, sampler, fixture, treq, tsent, img, imgOut>>

\* The vendor stream ends, and releases its connection
StreamEnds(c) ==
    /\ calls[c].pc = "awaitEvent" /\ calls[c].stream = "open"
    /\ calls[c].pos = Len(VendorEvents(sampler.provider, fixture))
    /\ calls' = [calls EXCEPT ![c] = LoopExhausted([@ EXCEPT !.stream = "closed"])]
    /\ UNCHANGED <<factoryVars, promptVars, appVars, sampler, fixture, treq, tsent, img, imgOut>>

\* The vendor stream fails, and releases its connection
StreamFails(c, e) ==
    /\ calls[c].pc = "awaitEvent" /\ calls[c].stream = "open"
    /\ calls' = [calls EXCEPT ![c] =
                    LoopThrows([@ EXCEPT !.stream = "closed", !.raised = <<e>>], e)]
    /\ UNCHANGED <<factoryVars, promptVars, appVars, sampler, fixture, treq, tsent, img, imgOut>>

\* The consumer requests the next fragment: the generator resumes after its
\* yield and the loop asks the stream for an event
ConsumerNext(c) ==
    /\ calls[c].pc = "suspendedYield"
    /\ calls' = [calls EXCEPT ![c].pc = "awaitEvent", ![c].requested = @ + 1]
    /\ UNCHANGED <<factoryVars, promptVars, appVars, sampler, fixture, treq, tsent, img, imgOut>>

\* The consumer abandons the sequence: a break out of its for-await loop
\* calls return() on the generator
ConsumerReturns(c) ==
    /\ calls[c].op = "chatStream"
    /\ calls[c].pc \in {"suspendedStart", "suspendedYield"}
    /\ calls' = [calls EXCEPT ![c] = GeneratorReturn(@)]
    /\ UNCHANGED <<factoryVars, promptVars, appVars, sampler, fixture, treq, tsent, img, imgOut>>

\* The consumer requests a fragment of a sequence that has ended
ConsumerNextAfterEnd(c) ==
    /\ calls[c].op = "chatStream" /\ calls[c].pc = "completed"
    /\ calls[c].afterEnd < MaxAfterEnd
    /\ calls' = [calls EXCEPT ![c].afterEnd = @ + 1, ![c].requested = @ + 1]
    /\ UNCHANGED <<factoryVars, promptVars, appVars, sampler, fixture, treq, tsent, img, imgOut>>

Next ==
    \/ \E params \in CallRequests : CallChat(params)
    \/ \E params \in CallRequests : CallChatStream(params)
    \/ \E c \in CallIds : ConsumerFirstNext(c)
    \/ \E c \in CallIds : VendorResponds(c)
    \/ \E c \in CallIds : VendorOpensStream(c)
    \/ \E c \in CallIds, e \in VendorErrors : VendorRejects(c, e)
    \/ \E c \in CallIds : StreamDelivers(c)
    \/ \E c \in CallIds : StreamEnds(c)
    \/ \E c \in CallIds, e \in VendorErrors : StreamFails(c, e)
    \/ \E c \in CallIds : ConsumerNext(c)
    \/ \E c \in CallIds : ConsumerReturns(c)
    \/ \E c \in CallIds : ConsumerNextAfterEnd(c)

Spec == Init /\ [][Next]_vars

-----------------------------------------------------------------------------
(* Specification SpecTranslate: the vendor requests built from a request.  *)
(* The request is drawn from system prompts (absent, empty, non-empty),    *)
(* message lists over user, system and assistant roles with string and     *)
(* structured content, and options.                                        *)

ImagePng == <<"i","m","a","g","e","/","p","n","g">>

\* An https URL, a base64 data URL, and a base64 data URL with a parameter
HttpUrl == <<"h","t","t","p","s",":","/","/","a","/","i">>
PngDataUrl == DataPrefix \o ImagePng \o Base64Marker \o <<"x">>
ParameterDataUrl == DataPrefix \o ImagePng \o <<";","n","=","a">> \o Base64Marker \o <<"x">>

TranslateMessages ==
    {UserMessage,
     [role |-> "system", content |-> [str |-> <<"r">>]],
     [role |-> "assistant",
      content |-> [arr |-> <<[type |-> "text", text |-> <<"t">>],
                             [type |-> "image",
                              source |-> [media_type |-> ImagePng, data |-> <<"x">>]]>>]],
     [role |-> "user",
      content |-> [arr |-> <<[type |-> "text", text |-> <<"t">>],
                             [type |-> "text", text |-> <<"u">>]>>]],
     [role |-> "user",
      content |-> [arr |-> <<[type |-> "image", source |-> [data |-> <<"x">>]],
                             [type |-> "image_url", image_url |-> [url |-> HttpUrl]],
                             [type |-> "image_url", image_url |-> [url |-> PngDataUrl]]>>]],
     [role |-> "user",
      content |-> [arr |-> <<[type |-> "image", source |-> [data |-> <<>>]],
                             [type |-> "image_url",
                              image_url |-> [url |-> ParameterDataUrl]],
                             [type |-> "image",
                              source |-> [type |-> "url", url |-> HttpUrl]]>>]]}

TranslateRequests ==
    {prompt @@ [messages |-> ms] @@ opts :
        prompt \in {Empty, [systemPrompt |-> <<>>], [systemPrompt |-> <<"S">>]},
        ms \in SeqsUpTo(TranslateMessages, MaxMsgs),
        opts \in {Empty, [options |-> [maxTokens |-> 50, temperature |-> 0]],
                   [options |-> [store |-> TRUE]]}}

InitTranslate ==
    /\ sampler \in {OpenAISampler(Empty), ClaudeSampler(Empty)}
    /\ treq \in TranslateRequests
    /\ tsent = Empty
    /\ fixture = <<>> /\ calls = <<>> /\ img = Empty /\ imgOut = <<>>
    /\ NoFactory /\ NoPrompt

\* The request chat passes to the vendor's create
TranslateChat ==
    /\ ~Has(tsent, "chat")
    /\ tsent' = tsent @@ [chat |-> ChatRequest(sampler, treq)]
    /\ tafter' = ParamsAfter(sampler, tafter)
    /\ UNCHANGED <<factoryVars, promptVars, getVars, webVars, sampler, fixture, calls, treq,
                   img, imgOut>>

\* The request chatStream passes to the vendor's create
TranslateStream ==
    /\ ~Has(tsent, "chatStream")
    /\ tsent' = tsent @@ [chatStream |-> StreamRequest(sampler, treq)]
    /\ tafter' = ParamsAfter(sampler, tafter)
    /\ UNCHANGED <<factoryVars, promptVars, getVars, webVars, sampler, fixture, calls, treq,
                   img, imgOut>>

NextTranslate == TranslateChat \/ TranslateStream

SpecTranslate == InitTranslate /\ [][NextTranslate]_vars

-----------------------------------------------------------------------------
(* Specification SpecImage: an Image part through the OpenAI variant, and  *)
(* the result through the Claude variant.  Media types and data are built  *)
(* from lexical atoms: an ordinary character, ';', a line feed and the     *)
(* word ';base64,'.                                                        *)

ImageAtoms == {<<"x">>, <<";">>, <<"\n">>, Base64Marker}

ImageStrings == {Join(s) : s \in SeqsUpTo(ImageAtoms, MaxAtoms)}

ImageSources ==
    {[data |-> d, media_type |-> m] : d \in ImageStrings, m \in ImageStrings}
    \cup {[data |-> d] : d \in ImageStrings}

InitImage ==
    /\ img \in ImageSources
    /\ imgOut = <<>>
    /\ sampler = Empty /\ fixture = <<>> /\ calls = <<>>
    /\ treq = Empty /\ tsent = Empty
    /\ NoFactory /\ NoPrompt

\* The OpenAI variant translates the part { type: 'image', source: img }
EncodeOpenAI ==
    /\ imgOut = <<>>
    /\ imgOut' = <<OpenAISampler_formatItem([type |-> "image", source |-> img])>>
    /\ UNCHANGED <<factoryVars, promptVars, appVars, sampler, fixture, calls, treq, tsent, img>>

\* The Claude variant translates the part the OpenAI variant produced
DecodeClaude ==
    /\ Len(imgOut) = 1
    /\ imgOut' = Append(imgOut, ClaudeSampler_formatItem(imgOut[1]))
    /\ UNCHANGED <<factoryVars, promptVars, appVars, sampler, fixture, calls, treq, tsent, img>>

NextImage == EncodeOpenAI \/ DecodeClaude

SpecImage == InitImage /\ [][NextImage]_vars

-----------------------------------------------------------------------------
(* The factory Sampler.create.  A provider name is a JavaScript string, a  *)
(* sequence of characters; an API key and a model are names.               *)

OpenAIName == <<"o","p","e","n","a","i">>
GptName == <<"g","p","t">>
ClaudeName == <<"c","l","a","u","d","e">>
AnthropicName == <<"a","n","t","h","r","o","p","i","c">>

\* The characters of PROVIDERS.OPENAI and of PROVIDERS.CLAUDE
ProviderName(provider) ==
    IF provider = PROVIDERS_OPENAI THEN OpenAIName ELSE ClaudeName

Uppers ==
    <<"A","B","C","D","E","F","G","H","I","J","K","L","M",
      "N","O","P","Q","R","S","T","U","V","W","X","Y","Z">>
Lowers ==
    <<"a","b","c","d","e","f","g","h","i","j","k","l","m",
      "n","o","p","q","r","s","t","u","v","w","x","y","z">>

LowerOf(ch) ==
    IF \E i \in 1..Len(Uppers) : Uppers[i] = ch
    THEN Lowers[CHOOSE i \in 1..Len(Uppers) : Uppers[i] = ch]
    ELSE ch

\* Mutant: the provider is compared as it was written
ToLowerCaseSkipped(s) == s

\* String.prototype.toLowerCase, on the letters A to Z
ToLowerCase(s) == [i \in 1..Len(s) |-> LowerOf(s[i])]

\* a || b || ... for strings: the first truthy one, else the last
OrStr(o, f, dflt) == IF Has(o, f) /\ Truthy(o[f]) THEN o[f] ELSE dflt

\* Mutant: the process-wide default is consulted before the config
EffectiveProviderEnvFirst(options, e) ==
    OrStr(e, "LLM_PROVIDER", OrStr(options, "provider", ProviderName(PROVIDERS_OPENAI)))

\* options.provider || process.env.LLM_PROVIDER || PROVIDERS.OPENAI
EffectiveProvider(options, e) ==
    OrStr(options, "provider", OrStr(e, "LLM_PROVIDER", ProviderName(PROVIDERS_OPENAI)))

\* Mutant: the default case falls back to the OpenAI variant
VariantOfFallback(provider) ==
    LET name == ToLowerCase(provider)
    IN  IF name = ProviderName(PROVIDERS_CLAUDE) \/ name = AnthropicName
        THEN <<PROVIDERS_CLAUDE>>
        ELSE <<PROVIDERS_OPENAI>>

\* The variant the switch selects: <<PROVIDERS.X>>, or <<>> in the default case
VariantOf(provider) ==
    LET name == ToLowerCase(provider)
    IN  IF name = ProviderName(PROVIDERS_OPENAI) \/ name = GptName
        THEN <<PROVIDERS_OPENAI>>
        ELSE IF name = ProviderName(PROVIDERS_CLAUDE) \/ name = AnthropicName
        THEN <<PROVIDERS_CLAUDE>>
        ELSE <<>>

\* new Error(`Unknown provider: ${provider}. Use 'openai' or 'claude'.`)
UnknownProviderError(provider) ==
    [name |-> "Error", unknownProvider |-> provider]

\* The environment variable a variant's constructor reads its key from
KeyVariable(provider) ==
    IF provider = PROVIDERS_OPENAI THEN "OPENAI_API_KEY" ELSE "ANTHROPIC_API_KEY"

\* new OpenAI({ apiKey: options.apiKey || process.env.OPENAI_API_KEY }), and
\* the same of Anthropic: the client, with the key it was given, if any
VendorClient(provider, options, e) ==
    LET key == OrName(options, "apiKey", OrName(e, KeyVariable(provider), ""))
    IN  [vendor |-> provider] @@ (IF key # "" THEN [apiKey |-> key] ELSE Empty)

\* The failure of a vendor client that refuses to be built without a key
MissingCredential(provider) == [name |-> "VendorCredentialError", vendor |-> provider]

\* Whether the vendor client's constructor returns.  The vendor decides what
\* it does without a key: it may return and fail on a request, or throw.
ClientConstructs(client) == IF Has(client, "apiKey") THEN {TRUE} ELSE {TRUE, FALSE}

\* Mutant: a constructor that validates the credential, and throws its own error
ConstructorThrowsConfigurationError(client) == [name |-> "ConfigurationError"]

\* What a variant's constructor throws when the vendor client's does:
\* the vendor's failure, as nothing catches it
ConstructorThrows(client) == MissingCredential(client.vendor)

\* The fields of the instance a variant's constructor sets, but the client
VariantSampler(provider, options) ==
    IF provider = PROVIDERS_OPENAI THEN OpenAISampler(options) ELSE ClaudeSampler(options)

\* The vendor of a client or of an instance
VendorOf(obj) == IF Has(obj, "vendor") THEN obj.vendor ELSE obj.provider

\* Mutant: one object per vendor is kept and handed out again
PooledObject(heap, obj) ==
    IF \E i \in 1..Len(heap) : VendorOf(heap[i]) = VendorOf(obj)
    THEN CHOOSE i \in 1..Len(heap) : VendorOf(heap[i]) = VendorOf(obj)
    ELSE Len(heap) + 1

\* new: the identity of the object built, which no earlier object has
NewObject(heap, obj) == Len(heap) + 1

\* The heap once obj is the object of identity id
Store(heap, id, obj) ==
    IF id <= Len(heap) THEN [heap EXCEPT ![id] = obj] ELSE Append(heap, obj)

\* Sampler.create(options), when the variant's vendor client is built
\* (built = TRUE) or its constructor throws (built = FALSE): the outcome
\* [instance |-> identity] or [error |-> e], and the heaps after it
Sampler_create(options, e, heap, cheap, built) ==
    LET provider == EffectiveProvider(options, e)
        variant  == VariantOf(provider)
    IN  IF variant = <<>>
        THEN [outcome |-> [error |-> UnknownProviderError(provider)],
              instances |-> heap, clients |-> cheap]
        ELSE LET client == VendorClient(variant[1], options, e)
             IN  IF ~built
                 THEN [outcome |-> [error |-> ConstructorThrows(client)],
                       instances |-> heap, clients |-> cheap]
                 ELSE LET cid  == NewObject(cheap, client)
                          self == VariantSampler(variant[1], options)
                                  @@ [client |-> cid]
                          id   == NewObject(heap, self)
                      IN  [outcome |-> [instance |-> id],
                           instances |-> Store(heap, id, self),
                           clients |-> Store(cheap, cid, client)]

\* The ways the vendor client's constructor may end for these options
BuildOutcomes(options, e) ==
    LET variant == VariantOf(EffectiveProvider(options, e))
    IN  IF variant = <<>> THEN {TRUE}
        ELSE ClientConstructs(VendorClient(variant[1], options, e))

\* The caller's const sampler = Sampler.create(options), the limit-th call
\* of it at the latest
Create(options, limit) ==
    /\ Len(created) < limit
    /\ \E built \in BuildOutcomes(options, env) :
          LET r == Sampler_create(options, env, instances, clients, built)
          IN  /\ instances' = r.instances
              /\ clients' = r.clients
              /\ created' = Append(created, [via |-> "create", options |-> options,
                                             outcome |-> r.outcome])
              /\ sampler' = IF Has(r.outcome, "instance")
                            THEN r.instances[r.outcome.instance] ELSE sampler
    /\ UNCHANGED <<env, promptVars, appVars, fixture, calls, treq, tsent, img, imgOut>>

\* The config Sampler.chat passes to Sampler.create:
\* { provider: params.provider, apiKey: params.apiKey, model: params.model }
HelperOptions(params) ==
    (IF Has(params, "provider") THEN [provider |-> params.provider] ELSE Empty)
    @@ (IF Has(params, "apiKey") THEN [apiKey |-> params.apiKey] ELSE Empty)
    @@ (IF Has(params, "model") THEN [model |-> params.model] ELSE Empty)

\* Sampler.chat(params), the limit-th creation at the latest: it creates a
\* sampler of its own and calls its chat, up to the await of the vendor's
\* create; a failure of Sampler.create rejects the call
SamplerChat(params, limit) ==
    /\ Len(created) < limit
    /\ \E built \in BuildOutcomes(HelperOptions(params), env) :
          LET options == HelperOptions(params)
              r       == Sampler_create(options, env, instances, clients, built)
              call    == NewCall("chat", params)
          IN  /\ instances' = r.instances
              /\ clients' = r.clients
              /\ created' = Append(created, [via |-> "chat", options |-> options,
                                             outcome |-> r.outcome])
              /\ calls' = Append(calls,
                     IF Has(r.outcome, "instance")
                     THEN ChatSend(r.instances[r.outcome.instance], call)
                          @@ [on |-> r.outcome.instance]
                     ELSE [call EXCEPT !.pc = "completed",
                                       !.result = [kind |-> "error",
                                                   error |-> r.outcome.error]])
    /\ UNCHANGED <<env, promptVars, appVars, sampler, fixture, treq, tsent, img, imgOut>>

\* The calls Sampler.chat made on a sampler of its own
HelperCalls == {c \in CallIds : Has(calls[c], "on")}

\* The vendor's create resolves with the response to a request of Sampler.chat
HelperResponds(c) ==
    /\ c \in HelperCalls /\ calls[c].pc = "awaitCreate"
    /\ LET self == instances[calls[c].on]
       IN  calls' = [calls EXCEPT ![c] =
                        ChatReturn(self, @,
                                   VendorResponse(self.provider, fixture, @.sent[Len(@.sent)]))]
    /\ UNCHANGED <<factoryVars, promptVars, appVars, sampler, fixture, treq, tsent, img, imgOut>>

\* The vendor's create fails for a request of Sampler.chat
HelperRejects(c, e) ==
    /\ c \in HelperCalls
    /\ VendorRejects(c, e)

\* The script the vendor replies from in the factory specifications
FactoryFixture == <<[type |-> "text", text |-> TextA], [type |-> "tool_use"]>>

NoCalls ==
    /\ calls = <<>> /\ treq = Empty /\ tsent = Empty /\ img = Empty /\ imgOut = <<>>

NothingCreated == instances = <<>> /\ clients = <<>> /\ created = <<>>

BothKeys == [OPENAI_API_KEY |-> "sk-env", ANTHROPIC_API_KEY |-> "ak-env"]

-----------------------------------------------------------------------------
(* Specification SpecCreate: one Sampler.create, for every casing of the   *)
(* four recognized names, names that are not recognized, the empty name    *)
(* and no name, under each process-wide default.                           *)

UpperOf(ch) ==
    IF \E i \in 1..Len(Lowers) : Lowers[i] = ch
    THEN Uppers[CHOOSE i \in 1..Len(Lowers) : Lowers[i] = ch]
    ELSE ch

\* The strings that differ from name in the case of letters only
RECURSIVE Casings(_)
Casings(name) ==
    IF name = <<>> THEN {<<>>}
    ELSE {<<ch>> \o rest : ch \in {Head(name), UpperOf(Head(name))},
                            rest \in Casings(Tail(name))}

RecognizedNames == {OpenAIName, GptName, ClaudeName, AnthropicName}

UnknownNames ==
    {<<"u","n","k","n","o","w","n">>, <<"l","l","a","m","a">>,
     <<"g","p","t","4">>, <<"o","p","e","n","-","a","i">>,
     <<" ","c","l","a","u","d","e">>, <<"c","l","a","u","d">>}

CreateProviders ==
    UNION {Casings(name) : name \in RecognizedNames} \cup UnknownNames \cup {<<>>}

CreateOptions == {Empty} \cup {[provider |-> p] : p \in CreateProviders}

CreateEnvs ==
    {BothKeys} \cup
    {BothKeys @@ [LLM_PROVIDER |-> p] :
        p \in {<<>>, ClaudeName, <<"G","p","T">>, <<"l","l","a","m","a">>}}

InitCreate ==
    /\ env \in CreateEnvs
    /\ NothingCreated
    /\ sampler = Empty /\ fixture = <<>> /\ NoCalls /\ NoPrompt

NextCreate == \E options \in CreateOptions : Create(options, 1)

SpecCreate == InitCreate /\ [][NextCreate]_vars

-----------------------------------------------------------------------------
(* Specification SpecResolve: the model and the max-tokens value of the    *)
(* requests built for a caller's request, on a sampler made by             *)
(* Sampler.create and through Sampler.chat.                                *)

ResolveOptions ==
    {p @@ m @@ t :
        p \in {Empty, [provider |-> ClaudeName], [provider |-> GptName]},
        m \in {Empty, [model |-> ""], [model |-> "m-config"]},
        t \in {Empty, [maxTokens |-> 0], [maxTokens |-> 7]}}

ResolveRequestOptions ==
    {Empty} \cup
    {[options |-> m @@ t] :
        m \in {Empty, [model |-> ""], [model |-> "m-request"]},
        t \in {Empty, [maxTokens |-> 0], [maxTokens |-> 9]}}

\* The fields of a request that Sampler.chat reads as a config
ResolveHelperFields ==
    {Empty, [provider |-> AnthropicName],
     [model |-> "m-helper", maxTokens |-> 5], [model |-> "", maxTokens |-> 5]}

ResolveRequests ==
    {[messages |-> <<UserMessage>>] @@ o @@ h :
        o \in ResolveRequestOptions, h \in ResolveHelperFields}

ResolveEnvs == {BothKeys, BothKeys @@ [LLM_PROVIDER |-> ClaudeName]}

InitResolve ==
    /\ env \in ResolveEnvs
    /\ NothingCreated
    /\ treq \in ResolveRequests
    /\ tsent = Empty
    /\ sampler = Empty /\ fixture = FactoryFixture /\ calls = <<>>
    /\ img = Empty /\ imgOut = <<>> /\ NoPrompt

\* The caller calls chat on the sampler it created
ResolveChat == sampler # Empty /\ TranslateChat

\* The caller consumes chatStream of the sampler it created
ResolveStream == sampler # Empty /\ TranslateStream

NextResolve ==
    \/ \E options \in ResolveOptions : Create(options, 1)
    \/ SamplerChat(treq, 1)
    \/ ResolveChat
    \/ ResolveStream
    \/ \E c \in CallIds : HelperResponds(c)
    \/ \E c \in CallIds, e \in VendorErrors : HelperRejects(c, e)

SpecResolve == InitResolve /\ [][NextResolve]_vars

-----------------------------------------------------------------------------
(* Specification SpecCredential: a sampler constructed with and without a  *)
(* credential, and its first calls.  A vendor client without a key cannot  *)
(* serve a request.                                                        *)

CredentialOptions ==
    {[provider |-> p] @@ k :
        p \in {OpenAIName, ClaudeName}, k \in {Empty, [apiKey |-> "sk-config"]}}

CredentialEnvs == {Empty, [OPENAI_API_KEY |-> "sk-env"], BothKeys}

InitCredential ==
    /\ env \in CredentialEnvs
    /\ NothingCreated
    /\ sampler = Empty /\ fixture = FactoryFixture /\ NoCalls /\ NoPrompt

\* The client of the caller's sampler holds a key
Keyed == Has(clients[sampler.client], "apiKey")

NextCredential ==
    \/ \E options \in CredentialOptions : Create(options, 1)
    \/ \E params \in CallRequests : sampler # Empty /\ CallChat(params)
    \/ \E params \in CallRequests : sampler # Empty /\ CallChatStream(params)
    \/ \E c \in CallIds : ConsumerFirstNext(c)
    \/ \E c \in CallIds : Keyed /\ VendorResponds(c)
    \/ \E c \in CallIds : Keyed /\ VendorOpensStream(c)
    \/ \E c \in CallIds, e \in VendorErrors : VendorRejects(c, e)
    \/ \E c \in CallIds : StreamDelivers(c)
    \/ \E c \in CallIds : StreamEnds(c)
    \/ \E c \in CallIds : ConsumerNext(c)

SpecCredential == InitCredential /\ [][NextCredential]_vars

-----------------------------------------------------------------------------
(* Specification SpecFactory: Sampler.create and Sampler.chat called       *)
(* again and again, each with a config of its own.                         *)

FactoryOptions ==
    {p @@ m @@ t :
        p \in {Empty, [provider |-> ClaudeName]},
        m \in {Empty, [model |-> "m1"], [model |-> "m2"]},
        t \in {Empty, [maxTokens |-> 7]}}

FactoryRequests ==
    {[messages |-> <<UserMessage>>] @@ h :
        h \in {Empty, [provider |-> AnthropicName, model |-> "m1"]}}

InitFactory ==
    /\ env \in ResolveEnvs
    /\ NothingCreated
    /\ sampler = Empty /\ fixture = FactoryFixture /\ NoCalls /\ NoPrompt

NextFactory ==
    \/ \E options \in FactoryOptions : Create(options, MaxCreates)
    \/ \E params \in FactoryRequests : SamplerChat(params, MaxCreates)
    \/ \E c \in CallIds : HelperResponds(c)
    \/ \E c \in CallIds, e \in VendorErrors : HelperRejects(c, e)

SpecFactory == InitFactory /\ [][NextFactory]_vars

-----------------------------------------------------------------------------
(* Specification SpecConcurrent: several calls in flight on one sampler    *)
(* instance, interleaved at their suspension points: the await of the      *)
(* vendor's create, the await of each vendor event, and each yield.        *)

\* Mutant: chat keeps the model it resolved in the instance
InstanceAfterChatKeepsModel(self, params) ==
    [self EXCEPT !.model = OrName(OptionsOf(params), "model", @)]

\* The instance after chat has run to its await: chat reads this.model,
\* this.maxTokens and this.client, and assigns no field of this
InstanceAfterChat(self, params) == self

ConcurrentRequests ==
    {[systemPrompt |-> <<"S">>, messages |-> <<UserMessage>>,
      options |-> [model |-> "m-one", maxTokens |-> 50]],
     [messages |-> <<UserMessage, UserMessage>>]}

ConcurrentFixture == <<[type |-> "text", text |-> TextA]>>

\* The instance new OpenAISampler({}) or new ClaudeSampler({}) builds
Constructed(provider) == VariantSampler(provider, Empty) @@ [client |-> 1]

InitConcurrent ==
    /\ sampler \in {Constructed(PROVIDERS_OPENAI), Constructed(PROVIDERS_CLAUDE)}
    /\ fixture = ConcurrentFixture
    /\ calls = <<>>
    /\ Idle

\* The caller calls sampler.chat(params) while other calls are in flight
ConcurrentChat(params) ==
    /\ Len(calls) < MaxInFlight
    /\ calls' = Append(calls, ChatSend(sampler, NewCall("chat", params)))
    /\ sampler' = InstanceAfterChat(sampler, params)
    /\ UNCHANGED <<factoryVars, promptVars, appVars, fixture, treq, tsent, img, imgOut>>

\* The caller calls sampler.chatStream(params) while other calls are in flight
ConcurrentChatStream(params) ==
    /\ Len(calls) < MaxInFlight
    /\ calls' = Append(calls, NewCall("chatStream", params))
    /\ UNCHANGED <<factoryVars, promptVars, appVars, sampler, fixture, treq, tsent, img, imgOut>>

NextConcurrent ==
    \/ \E params \in ConcurrentRequests : ConcurrentChat(params)
    \/ \E params \in ConcurrentRequests : ConcurrentChatStream(params)
    \/ \E c \in CallIds : ConsumerFirstNext(c)
    \/ \E c \in CallIds : VendorResponds(c)
    \/ \E c \in CallIds : VendorOpensStream(c)
    \/ \E c \in CallIds, e \in VendorErrors : VendorRejects(c, e)
    \/ \E c \in CallIds : StreamDelivers(c)
    \/ \E c \in CallIds : StreamEnds(c)
    \/ \E c \in CallIds, e \in VendorErrors : StreamFails(c, e)
    \/ \E c \in CallIds : ConsumerNext(c)
    \/ \E c \in CallIds : ConsumerReturns(c)

SpecConcurrent == InitConcurrent /\ [][NextConcurrent]_vars

-----------------------------------------------------------------------------
(* renderPrompt of prompts.js.  A template and a value are strings; the    *)
(* variables object is a function from property names to values.           *)

\* The characters String.prototype.trim removes
IsWhiteSpace(ch) == ch \in {" ", "\t", "\n", "\r"}

RECURSIVE TrimStart(_)
TrimStart(s) ==
    IF s # <<>> /\ IsWhiteSpace(Head(s)) THEN TrimStart(Tail(s)) ELSE s

RECURSIVE TrimEnd(_)
TrimEnd(s) ==
    IF s # <<>> /\ IsWhiteSpace(s[Len(s)]) THEN TrimEnd(SubSeq(s, 1, Len(s) - 1)) ELSE s

\* varName.trim()
Trim(s) == TrimEnd(TrimStart(s))

\* The length of the longest run of characters other than '}' from index j
RECURSIVE RunLength(_, _)
RunLength(t, j) ==
    IF j > Len(t) \/ t[j] = "}" THEN 0 ELSE 1 + RunLength(t, j + 1)

\* /\{\{([^}]+)\}\}/ matched at index i: the length of its group, 0 when
\* it does not match.  The group takes every character up to the next '}'.
MatchAt(t, i) ==
    LET n == RunLength(t, i + 2)
    IN  IF /\ i + 1 <= Len(t) /\ t[i] = "{" /\ t[i + 1] = "{"
           /\ n >= 1
           /\ i + n + 3 <= Len(t) /\ t[i + n + 2] = "}" /\ t[i + n + 3] = "}"
        THEN n ELSE 0

ObjectSource ==
    <<"f","u","n","c","t","i","o","n"," ","O","b","j","e","c","t","(",")"," ",
      "{"," ","[","n","a","t","i","v","e"," ","c","o","d","e","]"," ","}">>

ConstructorName == <<"c","o","n","s","t","r","u","c","t","o","r">>

\* What an object literal inherits from Object.prototype, as the string a
\* replacement converts it to
ObjectPrototype == [name \in {ConstructorName} |-> ObjectSource]

\* variables[name]: <<value>>, or <<>> when it is undefined
Lookup(vars0, name) ==
    IF name \in DOMAIN vars0 THEN <<vars0[name]>>
    ELSE IF name \in DOMAIN ObjectPrototype THEN <<ObjectPrototype[name]>>
    ELSE <<>>

\* The callback of replace: the value of the trimmed name, else the match
Replacement(vars0, match, varName) ==
    LET value == Lookup(vars0, Trim(varName))
    IN  IF value # <<>> THEN value[1] ELSE match

\* template.replace(/.../g, callback) from index i on: the leftmost match
\* is replaced by what the callback returns, as it is, and the search
\* goes on after the match
RECURSIVE ReplaceFrom(_, _, _)
ReplaceFrom(t, vars0, i) ==
    IF i > Len(t) THEN <<>>
    ELSE LET n == MatchAt(t, i)
         IN  IF n > 0
             THEN Replacement(vars0, SubSeq(t, i, i + n + 3), SubSeq(t, i + 2, i + n + 1))
                  \o ReplaceFrom(t, vars0, i + n + 4)
             ELSE <<t[i]>> \o ReplaceFrom(t, vars0, i + 1)

renderPrompt(t, vars0) == ReplaceFrom(t, vars0, 1)

-----------------------------------------------------------------------------
(* Specification SpecPrompt: renderPrompt on templates put together from   *)
(* pieces: text, single and double braces, placeholders with and without   *)
(* spaces, and a placeholder named as a property of Object.prototype.      *)

NameA == <<"a">>
NameB == <<"b">>

Placeholder(name) == <<"{", "{">> \o name \o <<"}", "}">>

TemplatePieces ==
    {<<"H", "i", " ">>, <<"{">>, <<"}">>, <<"{", "{">>, <<"}", "}">>, NameA,
     Placeholder(NameA), Placeholder(<<" ">> \o NameA \o <<" ">>),
     Placeholder(NameB), Placeholder(ConstructorName)}

Templates == {Join(s) : s \in SeqsUpTo(TemplatePieces, MaxPieces)}

VariableSets ==
    {Empty,
     [name \in {NameA} |-> <<"J", "o">>],
     [name \in {NameA} |-> <<>>],
     [name \in {NameA, NameB} |-> IF name = NameA THEN Placeholder(NameB) ELSE <<"W">>]}

InitPrompt ==
    /\ template \in Templates
    /\ variables \in VariableSets
    /\ rendered = <<>>
    /\ sampler = Empty /\ fixture = <<>> /\ NoCalls /\ NoFactory /\ NoApp

\* renderPrompt(template, variables)
Render ==
    /\ rendered = <<>>
    /\ rendered' = <<renderPrompt(template, variables)>>
    /\ UNCHANGED <<factoryVars, appVars, template, variables, sampler, fixture, calls,
                   treq, tsent, img, imgOut>>

\* renderPrompt(template): variables = {}
RenderDefault ==
    /\ rendered = <<>>
    /\ variables = Empty
    /\ rendered' = <<renderPrompt(template, Empty)>>
    /\ UNCHANGED <<factoryVars, appVars, template, variables, sampler, fixture, calls,
                   treq, tsent, img, imgOut>>

NextPrompt == Render \/ RenderDefault

SpecPrompt == InitPrompt /\ [][NextPrompt]_vars

-----------------------------------------------------------------------------
(* getPrompt of prompts.js.  A value of the loaded YAML document is an     *)
(* object [obj |-> keys to values], a string [str |-> s], a number         *)
(* [num |-> n] or null [null |-> TRUE]; a function met on the way is       *)
(* [fn |-> its name].                                                      *)

\* promptName.split('.')
RECURSIVE Split(_)
Split(s) ==
    LET i == FirstIndex(s, ".")
    IN  IF i = 0 THEN <<s>>
        ELSE <<SubSeq(s, 1, i - 1)>> \o Split(SubSeq(s, i + 1, Len(s)))

LengthName == <<"l","e","n","g","t","h">>
NameName == <<"n","a","m","e">>

\* The index a property name of a string stands for, -1 when it is none
IndexOf(key) ==
    IF key = <<"0">> THEN 0 ELSE IF key = <<"1">> THEN 1 ELSE -1

\* What a value finds on its prototype chain: its constructor
Inherited(ctor, key) ==
    IF key = ConstructorName THEN <<[fn |-> ctor]>> ELSE <<>>

\* current[key] of a value other than null: <<value>>, or <<>> when it is
\* undefined
PropertyOf(current, key) ==
    IF Has(current, "obj")
    THEN IF key \in DOMAIN current.obj THEN <<current.obj[key]>>
         ELSE Inherited(<<"O","b","j","e","c","t">>, key)
    ELSE IF Has(current, "str")
    THEN IF key = LengthName THEN <<[num |-> Len(current.str)]>>
         ELSE IF IndexOf(key) >= 0 /\ IndexOf(key) < Len(current.str)
              THEN <<[str |-> <<current.str[IndexOf(key) + 1]>>]>>
         ELSE Inherited(<<"S","t","r","i","n","g">>, key)
    ELSE IF Has(current, "num")
    THEN Inherited(<<"N","u","m","b","e","r">>, key)
    ELSE IF key = NameName THEN <<[str |-> current.fn]>>
         ELSE IF key = LengthName THEN <<[num |-> 1]>>
         ELSE Inherited(<<"F","u","n","c","t","i","o","n">>, key)

PromptNotFound(name) == [name |-> "Error", promptNotFound |-> name]

\* The loop over the keys: [found |-> value], or [thrown |-> error]
RECURSIVE WalkKeys(_, _, _)
WalkKeys(current, keys, name) ==
    IF keys = <<>> THEN [found |-> current]
    ELSE IF Has(current, "null") THEN [thrown |-> TypeError]
    ELSE LET value == PropertyOf(current, Head(keys))
         IN  IF value = <<>> THEN [thrown |-> PromptNotFound(name)]
             ELSE WalkKeys(value[1], Tail(keys), name)

FileError == [name |-> "Error", code |-> "ENOENT"]
YamlError == [name |-> "YAMLException"]

\* getPrompt(promptName, variables) when loadPrompts finds file:
\* [returned |-> value] or [thrown |-> error]
getPrompt(name, vars0, file) ==
    IF Has(file, "error") THEN [thrown |-> file.error]
    ELSE LET walk == WalkKeys(file.doc, Split(name), name)
         IN  IF Has(walk, "thrown") THEN walk
             ELSE IF Has(walk.found, "str")
                  THEN [returned |-> [str |-> renderPrompt(walk.found.str, vars0)]]
                  ELSE [thrown |-> TypeError]

-----------------------------------------------------------------------------
(* Specification SpecGetPrompt: getPrompt for dotted names of up to        *)
(* MaxKeys keys on documents shaped as prompts.yaml (s.t for               *)
(* system.storage, r.b for architect.basic), a document with a number and  *)
(* a null, an empty document and a file that cannot be loaded.             *)

PromptKeys ==
    {<<"s">>, <<"t">>, <<"x">>, <<"z">>, <<"0">>, <<>>, ConstructorName, NameName,
     LengthName}

\* keys joined by '.'
RECURSIVE Dotted(_)
Dotted(keys) ==
    IF Len(keys) = 1 THEN keys[1] ELSE keys[1] \o <<".">> \o Dotted(Tail(keys))

PromptNames == {Dotted(keys) : keys \in SeqsUpTo(PromptKeys, MaxKeys) \ {<<>>}}

StorageDocument ==
    [obj |-> [k \in {<<"s">>, <<"r">>} |->
        IF k = <<"s">>
        THEN [obj |-> [j \in {<<"t">>} |-> [str |-> <<"N", " ">> \o Placeholder(NameA)]]]
        ELSE [obj |-> [j \in {<<"b">>} |-> [str |-> <<"H", "i">>]]]]]

MixedDocument ==
    [obj |-> [k \in {<<"s">>, <<"x">>, <<"z">>} |->
        IF k = <<"s">> THEN [str |-> <<"H", "i">>]
        ELSE IF k = <<"x">> THEN [num |-> 3]
        ELSE [null |-> TRUE]]]

PromptFiles ==
    {[doc |-> StorageDocument], [doc |-> MixedDocument], [doc |-> [null |-> TRUE]],
     [error |-> FileError], [error |-> YamlError]}

InitGetPrompt ==
    /\ loaded \in PromptFiles
    /\ promptName \in PromptNames
    /\ variables \in {Empty, [name \in {NameA} |-> <<"J", "o">>]}
    /\ got = <<>>
    /\ template = <<>> /\ rendered = <<>>
    /\ sampler = Empty /\ fixture = <<>> /\ NoCalls /\ NoFactory /\ Untouched /\ NoWeb

\* getPrompt(promptName, variables)
GetPrompt ==
    /\ got = <<>>
    /\ got' = <<getPrompt(promptName, variables, loaded)>>
    /\ UNCHANGED <<factoryVars, promptVars, loaded, promptName, tafter, webVars,
                   sampler, fixture, calls, treq, tsent, img, imgOut>>

\* getPrompt(promptName): variables = {}
GetPromptDefault ==
    /\ got = <<>>
    /\ variables = Empty
    /\ got' = <<getPrompt(promptName, Empty, loaded)>>
    /\ UNCHANGED <<factoryVars, promptVars, loaded, promptName, tafter, webVars,
                   sampler, fixture, calls, treq, tsent, img, imgOut>>

NextGetPrompt == GetPrompt \/ GetPromptDefault

SpecGetPrompt == InitGetPrompt /\ [][NextGetPrompt]_vars

-----------------------------------------------------------------------------
(* Specification SpecStream: one chatStream call on a sampler instance,    *)
(* from the call to the end of its sequence, for every fixture.            *)

\* The consumer's one call of sampler.chatStream(params)
StreamOnly(params) == calls = <<>> /\ CallChatStream(params)

NextStream ==
    \/ \E params \in CallRequests : StreamOnly(params)
    \/ \E c \in CallIds : ConsumerFirstNext(c)
    \/ \E c \in CallIds : VendorOpensStream(c)
    \/ \E c \in CallIds, e \in VendorErrors : VendorRejects(c, e)
    \/ \E c \in CallIds : StreamDelivers(c)
    \/ \E c \in CallIds : StreamEnds(c)
    \/ \E c \in CallIds, e \in VendorErrors : StreamFails(c, e)
    \/ \E c \in CallIds : ConsumerNext(c)
    \/ \E c \in CallIds : ConsumerReturns(c)
    \/ \E c \in CallIds : ConsumerNextAfterEnd(c)

SpecStream == Init /\ [][NextStream]_vars

-----------------------------------------------------------------------------
(* The Express server, server.js: the handler of POST /api/openai.  The    *)
(* handler assigns hasAudio, text and result without declaring them, so    *)
(* they are variables of the module, shared by all requests.  A request is *)
(* a record:                                                               *)
(*   body       req.body                                                   *)
(*   pc         "awaitCreate" while the handler awaits the vendor's        *)
(*              create, "done" when it has returned                        *)
(*   sent       the requests the handler passed to the vendor's create     *)
(*   reply      the vendor's reply to this request, once it has arrived    *)
(*   responses  the HTTP responses the handler has sent, in order          *)
(* Between two awaits a handler runs alone.                                *)

SYSTEM_MESSAGE_COMIC == "SYSTEM_MESSAGE_COMIC"
SYSTEM_MESSAGE_RPG == "SYSTEM_MESSAGE_RPG"
SYSTEM_MESSAGE_DRAW == "SYSTEM_MESSAGE_DRAW"

\* res.status(status).json(body)
HttpResponse(status, body) == [status |-> status, body |-> body]

\* res.status(500).json({ error: error.message }) of the catch clause
CaughtResponse(error) == HttpResponse(500, [error |-> error.message])

CannotReadProperties == [name |-> "TypeError", message |-> "Cannot read properties of undefined"]

\* `data:image/jpeg;base64,${message.base64Photo}`
PhotoUrl(photo) == DataPrefix \o ImageJpeg \o Base64Marker \o photo

\* content after the loop over the messages
RECURSIVE ContentOf(_)
ContentOf(messages) ==
    IF messages = <<>> THEN <<>>
    ELSE LET message == Head(messages)
             rest == ContentOf(Tail(messages))
         IN  IF Has(message, "role") /\ message.role = "hidden" THEN rest
             ELSE IF Has(message, "base64Photo") /\ Truthy(message.base64Photo)
             THEN <<[type |-> "image_url",
                     image_url |-> [url |-> PhotoUrl(message.base64Photo)]]>> \o rest
             ELSE IF Has(message, "text") /\ Truthy(message.text)
             THEN <<[type |-> "text", text |-> message.text]>> \o rest
             ELSE rest

SystemMessageOf(body) ==
    IF Has(body, "environment") /\ body.environment = "rpg" THEN SYSTEM_MESSAGE_RPG
    ELSE IF Has(body, "environment") /\ body.environment = "draw" THEN SYSTEM_MESSAGE_DRAW
    ELSE SYSTEM_MESSAGE_COMIC

\* The request of the branch without audio
CompletionRequest(body) ==
    [model |-> "gpt-4o-mini", max_tokens |-> 1024, store |-> TRUE,
     messages |-> <<[role |-> "system", content |-> SystemMessageOf(body)],
                    [role |-> "user", content |-> ContentOf(body.messages)]>>]

\* The handler from its start to its first await or its return, run with
\* the shared variables sh and process.env e: the shared variables after,
\* where the handler is, what it sent and what it responded.  hasAudio is
\* assigned false and read with no await between, so the audio branch,
\* which awaits fetch, is not taken.
HandlerStart(sh, e, body) ==
    IF ~Has(body, "messages")
    THEN [shared |-> sh, pc |-> "done", sent |-> <<>>,
          responses |-> <<CaughtResponse(CannotReadProperties)>>]
    ELSE IF Len(body.messages) = 0
    THEN [shared |-> sh, pc |-> "done", sent |-> <<>>,
          responses |-> <<HttpResponse(400,
              [error |-> "Provide a message by typing or recording?"])>>]
    ELSE LET after == [hasAudio |-> FALSE] @@ sh
         IN  IF ~(Has(e, "OPENAI_API_KEY") /\ e.OPENAI_API_KEY # "")
             THEN [shared |-> after, pc |-> "done", sent |-> <<>>,
                   responses |-> <<HttpResponse(500,
                       [error |-> "OpenAI API key not configured"])>>]
             ELSE IF after.hasAudio
             THEN [shared |-> after, pc |-> "awaitFetch", sent |-> <<>>,
                   responses |-> <<>>]
             ELSE [shared |-> after, pc |-> "awaitCreate",
                   sent |-> <<CompletionRequest(body)>>, responses |-> <<>>]

\* response.choices[0].message.content ||
\* response.choices[0].message.audio.transcript: <<value>>, or <<>> when
\* evaluating it throws
AssignedText(message) ==
    IF Has(message.content, "str") /\ Truthy(message.content.str)
    THEN <<message.content.str>>
    ELSE IF Has(message, "audio") THEN <<message.audio.transcript>>
    ELSE <<>>

\* Mutant: text and result keep the values they already have
HandlerResumeKeepsResult(sh, response) ==
    IF response.choices = <<>>
    THEN [shared |-> sh, responses |-> <<CaughtResponse(CannotReadProperties)>>]
    ELSE LET assigned == AssignedText(response.choices[1].message)
         IN  IF assigned = <<>>
             THEN [shared |-> sh,
                   responses |-> <<CaughtResponse(CannotReadProperties)>>]
             ELSE LET after == sh @@ [text |-> assigned[1],
                                      result |-> [text |-> assigned[1]]]
                  IN  [shared |-> after,
                       responses |-> <<HttpResponse(200, after.result)>>]

\* The handler from the resolution of create to its return: text and result
\* are assigned and result is sent, with no await between
HandlerResume(sh, response) ==
    IF response.choices = <<>>
    THEN [shared |-> sh, responses |-> <<CaughtResponse(CannotReadProperties)>>]
    ELSE LET assigned == AssignedText(response.choices[1].message)
         IN  IF assigned = <<>>
             THEN [shared |-> sh,
                   responses |-> <<CaughtResponse(CannotReadProperties)>>]
             ELSE LET after == [text |-> assigned[1], result |-> [text |-> assigned[1]]]
                               @@ sh
                  IN  [shared |-> after,
                       responses |-> <<HttpResponse(200, after.result)>>]

-----------------------------------------------------------------------------
(* Specification SpecServer: up to MaxRequests requests to POST            *)
(* /api/openai in flight at once.  The vendor's reply to the n-th request  *)
(* is a text of n characters, a reply without content, or a failure.       *)

ServerBodies ==
    {Empty,
     [messages |-> <<>>],
     [messages |-> <<[role |-> "user", text |-> <<"h", "i">>]>>, environment |-> "rpg"],
     [messages |-> <<[role |-> "hidden", text |-> <<"s">>],
                     [role |-> "user", base64Photo |-> <<"x">>],
                     [role |-> "user"]>>]}

ReplyText(r) == [i \in 1..r |-> "a"]

\* What the vendor may answer to request r
RepliesTo(r) ==
    {[choices |-> <<[message |-> [role |-> "assistant",
                                  content |-> [str |-> ReplyText(r)]]]>>],
     [choices |-> <<[message |-> [role |-> "assistant", content |-> [null |-> TRUE]]]>>],
     [choices |-> <<[message |-> [role |-> "assistant", content |-> [null |-> TRUE],
                                  audio |-> [transcript |-> ReplyText(r)]]]>>]}

ServerErrors == {[name |-> "APIConnectionError", message |-> "Connection error."]}

InitServer ==
    /\ env \in {[OPENAI_API_KEY |-> "sk-env"], [OPENAI_API_KEY |-> ""]}
    /\ shared = Empty /\ requests = <<>>
    /\ NothingCreated
    /\ sampler = Empty /\ fixture = <<>> /\ NoCalls /\ NoPrompt

\* A request arrives and its handler runs to its first await or its return
Post(body) ==
    /\ Len(requests) < MaxRequests
    /\ LET h == HandlerStart(shared, env, body)
       IN  /\ shared' = h.shared
           /\ requests' = Append(requests,
                  [body |-> body, pc |-> h.pc, sent |-> h.sent, reply |-> <<>>,
                   responses |-> h.responses])
    /\ UNCHANGED <<factoryVars, promptVars, getVars, tafter, sampler, fixture, calls,
                   treq, tsent, img, imgOut>>

\* The vendor's create resolves for request r and its handler runs to its end
CreateResolves(r, response) ==
    /\ requests[r].pc = "awaitCreate"
    /\ LET h == HandlerResume(shared, response)
       IN  /\ shared' = h.shared
           /\ requests' = [requests EXCEPT ![r].pc = "done",
                                           ![r].reply = <<response>>,
                                           ![r].responses = @ \o h.responses]
    /\ UNCHANGED <<factoryVars, promptVars, getVars, tafter, sampler, fixture, calls,
                   treq, tsent, img, imgOut>>

\* The vendor's create rejects for request r: the catch clause responds
CreateRejects(r, e) ==
    /\ requests[r].pc = "awaitCreate"
    /\ requests' = [requests EXCEPT ![r].pc = "done",
                                    ![r].responses = Append(@, CaughtResponse(e))]
    /\ UNCHANGED <<factoryVars, promptVars, getVars, tafter, shared, sampler, fixture,
                   calls, treq, tsent, img, imgOut>>

NextServer ==
    \/ \E body \in ServerBodies : Post(body)
    \/ \E r \in 1..Len(requests) : \E response \in RepliesTo(r) : CreateResolves(r, response)
    \/ \E r \in 1..Len(requests), e \in ServerErrors : CreateRejects(r, e)

SpecServer == InitServer /\ [][NextServer]_vars

-----------------------------------------------------------------------------
(* The Neon query API: the router's POST /query and db.js's queryTable and *)
(* checkDatabase.  checkDatabase assigns result and db without declaring   *)
(* them, so they are variables of the module.  A request is a record:      *)
(*   body       req.body                                                   *)
(*   pc         "awaitCurrentDatabase" while checkDatabase awaits its      *)
(*              query, "awaitSql" while queryTable awaits sql(query),      *)
(*              "done" when the handler has returned                       *)
(*   executed   the queries passed to sql(query)                           *)
(*   responses  the HTTP responses the handler has sent, in order          *)

\* const database = "neondb": the database of DATABASE_URL
NeonDatabase == <<"n", "e", "o", "n", "d", "b">>

\* console.error('no db provided', error) reads a variable that is declared
\* nowhere, before the Error of the next line is thrown
ErrorIsNotDefined == [name |-> "ReferenceError", message |-> <<"error is not defined">>]

WrongDb == [name |-> "Error", message |-> <<"wrong db">>]

\* The catch clause of queryTable:
\* throw new Error(`Query execution failed: ${error.message}`)
QueryExecutionFailed(error) ==
    [name |-> "Error", message |-> <<"Query execution failed: ">> \o error.message]

\* Object.keys(row): a row is the sequence of its <<column, value>> pairs
ObjectKeys(row) == [i \in 1..Len(row) |-> row[i][1]]

\* What queryTable returns for the rows sql(query) resolved with
QueryResult(result) ==
    IF result = <<>> THEN [columns |-> <<>>, rows |-> <<>>]
    ELSE [columns |-> ObjectKeys(result[1]), rows |-> result]

\* checkDatabase(database) up to its await: "throws" or the await
CheckDatabaseStart(database) ==
    IF ~Truthy(database) THEN "throws" ELSE "awaitCurrentDatabase"

\* The handler of POST /query from its start to its first await or its
\* return: absent fields of the body are undefined
QueryStart(body) ==
    LET query == IF Has(body, "query") THEN body.query ELSE <<>>
        database == IF Has(body, "database") THEN body.database ELSE <<>>
    IN  IF ~Truthy(query)
        THEN [pc |-> "done",
              responses |-> <<HttpResponse(400, [error |-> <<"Query is required">>])>>]
        ELSE IF CheckDatabaseStart(database) = "throws"
        THEN [pc |-> "done",
              responses |-> <<CaughtResponse(QueryExecutionFailed(ErrorIsNotDefined))>>]
        ELSE [pc |-> "awaitCurrentDatabase", responses |-> <<>>]

-----------------------------------------------------------------------------
(* Specification SpecNeon: up to MaxRequests requests to POST /query.      *)

QueryText == <<"S", "E", "L", "E", "C", "T", " ", "1">>

QueryBodies ==
    {Empty,
     [database |-> NeonDatabase],
     [query |-> <<>>, database |-> NeonDatabase],
     [query |-> QueryText],
     [query |-> QueryText, table |-> <<"t">>],
     [query |-> QueryText, database |-> <<>>],
     [query |-> QueryText, database |-> NeonDatabase],
     [query |-> QueryText, database |-> <<"o">>, table |-> <<"t">>]}

\* What sql(query) may resolve with
QueryRows == {<<>>, << <<<<"id", 1>>, <<"name", "a">>>> >>}

NeonErrors == {[name |-> "NeonDbError", message |-> <<"syntax error">>]}

InitNeon ==
    /\ shared = Empty /\ requests = <<>>
    /\ NoFactory
    /\ sampler = Empty /\ fixture = <<>> /\ NoCalls
    /\ template = <<>> /\ variables = Empty /\ rendered = <<>>
    /\ loaded = Empty /\ promptName = <<>> /\ got = <<>> /\ Untouched

\* A request arrives and its handler runs to its first await or its return
PostQuery(body) ==
    /\ Len(requests) < MaxRequests
    /\ LET h == QueryStart(body)
       IN  requests' = Append(requests,
               [body |-> body, pc |-> h.pc, executed |-> <<>>,
                responses |-> h.responses])
    /\ UNCHANGED <<factoryVars, promptVars, getVars, tafter, shared, sampler, fixture,
                   calls, treq, tsent, img, imgOut>>

\* SELECT current_database() resolves for request r: result and db are
\* assigned, and either checkDatabase throws 'wrong db' or queryTable
\* passes the query to sql
CurrentDatabaseResolves(r) ==
    /\ requests[r].pc = "awaitCurrentDatabase"
    /\ LET result == << <<<<"db", NeonDatabase>>>> >>
           db == result[1][1][2]
       IN  /\ shared' = [result |-> result, db |-> db] @@ shared
           /\ IF db # requests[r].body.database
              THEN requests' = [requests EXCEPT
                       ![r].pc = "done",
                       ![r].responses =
                           Append(@, CaughtResponse(QueryExecutionFailed(WrongDb)))]
              ELSE requests' = [requests EXCEPT
                       ![r].pc = "awaitSql",
                       ![r].executed = Append(@, requests[r].body.query)]
    /\ UNCHANGED <<factoryVars, promptVars, getVars, tafter, sampler, fixture, calls,
                   treq, tsent, img, imgOut>>

\* SELECT current_database() or sql(query) rejects for request r
QueryRejects(r, e) ==
    /\ requests[r].pc \in {"awaitCurrentDatabase", "awaitSql"}
    /\ requests' = [requests EXCEPT
           ![r].pc = "done",
           ![r].responses = Append(@, CaughtResponse(QueryExecutionFailed(e)))]
    /\ UNCHANGED <<factoryVars, promptVars, getVars, tafter, shared, sampler, fixture,
                   calls, treq, tsent, img, imgOut>>

\* sql(query) resolves for request r: res.json(result)
QueryResolves(r, rows) ==
    /\ requests[r].pc = "awaitSql"
    /\ requests' = [requests EXCEPT
           ![r].pc = "done",
           ![r].responses = Append(@, HttpResponse(200, QueryResult(rows)))]
    /\ UNCHANGED <<factoryVars, promptVars, getVars, tafter, shared, sampler, fixture,
                   calls, treq, tsent, img, imgOut>>

NextNeon ==
    \/ \E body \in QueryBodies : PostQuery(body)
    \/ \E r \in 1..Len(requests) : CurrentDatabaseResolves(r)
    \/ \E r \in 1..Len(requests), e \in NeonErrors : QueryRejects(r, e)
    \/ \E r \in 1..Len(requests), rows \in QueryRows : QueryResolves(r, rows)

SpecNeon == InitNeon /\ [][NextNeon]_vars

-----------------------------------------------------------------------------
(* The claims *)

IsSystemEntry(m) == m.role = "system"
SystemEntries(ms) == Cardinality({i \in 1..Len(ms) : IsSystemEntry(ms[i])})
SystemEntry(params) == [role |-> "system", content |-> [str |-> params.systemPrompt]]

\* C1, as stated: for every chat or chatStream request with a non-empty
\* system prompt and any input message list, the OpenAI variant sends a
\* message list with exactly one entry of role 'system', and that entry is
\* the first; the Claude variant sends a message list with no entry derived
\* from the system prompt and carries the prompt in the field 'system'.
C1_ExactlyOneSystemEntry ==
    \A op \in DOMAIN tsent :
        HasSystemPrompt(treq) =>
            IF sampler.provider = PROVIDERS_OPENAI
            THEN /\ tsent[op].messages[1] = SystemEntry(treq)
                 /\ SystemEntries(tsent[op].messages) = 1
            ELSE /\ Len(tsent[op].messages) = Len(treq.messages)
                 /\ \A i \in 1..Len(treq.messages) :
                        tsent[op].messages[i].role = treq.messages[i].role
                 /\ Has(tsent[op], "system")
                 /\ tsent[op].system = treq.systemPrompt

\* C1, amended: for every chat or chatStream request with a non-empty system
\* prompt, the OpenAI variant sends a message list whose first entry is the
\* system-role entry carrying the prompt, followed by one entry per input
\* message, in order and with the input's role: the list holds one
\* system-role entry more than the input, so exactly one only when no input
\* message has the role 'system'.  The Claude variant sends one entry per
\* input message, none derived from the system prompt, and carries the prompt
\* in the field 'system'.
C1_SystemPromptPlacement ==
    \A op \in DOMAIN tsent :
        HasSystemPrompt(treq) =>
            IF sampler.provider = PROVIDERS_OPENAI
            THEN /\ tsent[op].messages[1] = SystemEntry(treq)
                 /\ Len(tsent[op].messages) = Len(treq.messages) + 1
                 /\ \A i \in 1..Len(treq.messages) :
                        tsent[op].messages[i + 1].role = treq.messages[i].role
                 /\ SystemEntries(tsent[op].messages) = SystemEntries(treq.messages) + 1
                 /\ ~Has(tsent[op], "system")
            ELSE /\ Len(tsent[op].messages) = Len(treq.messages)
                 /\ \A i \in 1..Len(treq.messages) :
                        tsent[op].messages[i].role = treq.messages[i].role
                 /\ Has(tsent[op], "system")
                 /\ tsent[op].system = treq.systemPrompt

\* C1, witness: both requests of the OpenAI variant have been built for a
\* request with a system prompt and an input message of role 'system'
C1_Witness ==
    /\ sampler.provider = PROVIDERS_OPENAI
    /\ DOMAIN tsent = {"chat", "chatStream"}
    /\ HasSystemPrompt(treq)
    /\ SystemEntries(treq.messages) = 1
    /\ Len(treq.messages) = 2

ChatCalls == {c \in CallIds : calls[c].op = "chat"}
StreamCalls == {c \in CallIds : calls[c].op = "chatStream"}
Failed(c) == calls[c].raised # <<>>

ProviderError(vendor, cause) ==
    [name |-> "ProviderError", vendor |-> vendor, cause |-> cause]

\* C2, as stated: when the vendor client raises a failure during chat, chat
\* raises a ProviderError that names the vendor and has the vendor's failure
\* as its cause.
C2_ChatRaisesProviderError ==
    \A c \in ChatCalls :
        Failed(c) =>
            /\ calls[c].result.kind = "error"
            /\ calls[c].result.error = ProviderError(sampler.provider, calls[c].raised[1])

\* C2, amended: when the vendor client raises a failure during chat, chat
\* raises that same failure, unchanged and unwrapped: no ProviderError is
\* built, and no other error and no response reaches the caller.
C2_ChatRaisesVendorFailure ==
    \A c \in ChatCalls :
        Failed(c) => calls[c].result = [kind |-> "error", error |-> calls[c].raised[1]]

\* C2, witness: a chat call whose vendor request failed with an
\* authentication failure has ended with an error
C2_Witness ==
    \E c \in ChatCalls :
        /\ calls[c].raised = <<[name |-> "AuthenticationError"]>>
        /\ calls[c].result.kind = "error"

\* C3: a chat call whose vendor request fails never returns a response: a
\* call that has returned a response received the vendor's response to the
\* request it sent and built the response from it, and a call whose vendor
\* request failed has ended with an error.
C3_NoFabricatedResponse ==
    \A c \in ChatCalls :
        /\ Failed(c) => calls[c].result.kind = "error"
        /\ calls[c].result.kind = "value" =>
              /\ ~Failed(c)
              /\ Len(calls[c].sent) = 1
              /\ calls[c].result.value.raw =
                     VendorResponse(sampler.provider, fixture, calls[c].sent[1])
              /\ calls[c].result.value.model = calls[c].sent[1].model

\* C3, witness: a chat call has failed against a vendor whose reply would
\* have held text, and has ended without a response
C3_Witness ==
    \E c \in ChatCalls :
        /\ Failed(c)
        /\ calls[c].pc = "completed"
        /\ calls[c].result.kind # "value"
        /\ FixtureText(fixture) # <<>>

\* A chatStream call is consumed once a fragment has been requested of the
\* live sequence (a request after the sequence has ended does not count)
Consumed(c) == calls[c].requested > calls[c].afterEnd

\* C4: each chat call, and each consumed chatStream call, invokes the
\* vendor's create exactly once, on success and on failure alike; no call
\* invokes it a second time, and a generator never consumed invokes nothing.
C4_CreateInvokedOnce ==
    \A c \in CallIds :
        Len(calls[c].sent) = IF calls[c].op = "chat" \/ Consumed(c) THEN 1 ELSE 0

\* C4, witness: a call whose vendor request failed has completed
C4_Witness ==
    \E c \in CallIds :
        /\ Failed(c) /\ calls[c].stream = "none"
        /\ calls[c].pc = "completed"
        /\ Len(calls[c].sent) = 1

\* C5: once chatStream has opened the vendor stream, the stream is released
\* on every exit path: no generator has completed, by exhaustion, by the
\* consumer's return() or by an error, while its vendor stream is open.
C5_StreamReleased ==
    \A c \in StreamCalls : calls[c].pc = "completed" => calls[c].stream # "open"

\* C5, witness: a consumer has abandoned a sequence after a fragment, and
\* the stream that was open is closed
C5_Witness ==
    \E c \in StreamCalls :
        /\ calls[c].result.kind = "returned"
        /\ Len(calls[c].yielded) = 1
        /\ calls[c].stream = "closed"

\* The text fragment a vendor event carries, as <<text>>, or <<>>: an OpenAI
\* chunk whose first choice has a delta with non-empty content, an Anthropic
\* content_block_delta event whose delta has non-empty text
CarriedText(event) ==
    IF Has(event, "choices")
    THEN IF event.choices = <<>> THEN <<>>
         ELSE LET choice == event.choices[1]
              IN  IF Has(choice, "delta") /\ Has(choice.delta, "content")
                     /\ choice.delta.content # <<>>
                  THEN <<choice.delta.content>> ELSE <<>>
    ELSE IF event.type = "content_block_delta" /\ Has(event, "delta")
            /\ Has(event.delta, "text") /\ event.delta.text # <<>>
         THEN <<event.delta.text>> ELSE <<>>

\* The fragments carried by the first n events of the vendor's stream
EmittedFragments(n) ==
    LET events == VendorEvents(sampler.provider, fixture)
    IN  Join([i \in 1..n |-> CarriedText(events[i])])

\* C6: the fragments chatStream has yielded are exactly the fragments of the
\* text-carrying events read from the vendor so far, in the vendor's order,
\* each once and unmerged; in particular a fragment is with the consumer
\* before the next vendor event is read.
C6_FragmentsInVendorOrder ==
    \A c \in StreamCalls : calls[c].yielded = EmittedFragments(calls[c].pos)

\* C6, witness: two different fragments have been yielded, and events
\* without text were read between them
C6_Witness ==
    \E c \in StreamCalls :
        /\ Len(calls[c].yielded) = 2
        /\ calls[c].yielded[1] # calls[c].yielded[2]
        /\ calls[c].pos > 3

MidStreamFailure(c) == Failed(c) /\ calls[c].stream = "closed"

\* C7, as stated: when the vendor stream fails after k fragments have been
\* yielded, the sequence ends by raising ProviderError on the next request.
C7_StreamRaisesProviderError ==
    \A c \in StreamCalls :
        MidStreamFailure(c) =>
            /\ calls[c].result.kind = "error"
            /\ calls[c].result.error = ProviderError(sampler.provider, calls[c].raised[1])

\* C7, amended: when the vendor stream fails after k fragments have been
\* yielded, the sequence ends by raising the vendor's failure, unchanged and
\* unwrapped, on the next request for a fragment (the k+1st); the k
\* fragments delivered are exactly the text fragments the vendor emitted
\* before the failure, and no fragment is delivered after the error.
C7_StreamRaisesVendorFailure ==
    \A c \in StreamCalls :
        MidStreamFailure(c) =>
            /\ calls[c].result = [kind |-> "error", error |-> calls[c].raised[1]]
            /\ calls[c].yielded = EmittedFragments(calls[c].pos)
            /\ calls[c].requested = Len(calls[c].yielded) + 1 + calls[c].afterEnd

\* C7, witness: a stream has failed after one fragment, and the consumer has
\* made a request since
C7_Witness ==
    \E c \in StreamCalls :
        /\ MidStreamFailure(c)
        /\ Len(calls[c].yielded) = 1
        /\ calls[c].afterEnd = 1

\* The result chat returns for the request and the fixture of a call
ChatResultFor(c) ==
    ChatResult(sampler.provider,
               VendorResponse(sampler.provider, fixture,
                              ChatRequest(sampler, calls[c].params)))

\* The vendor delivers the fixture as a text in its response: an Anthropic
\* message does, an OpenAI completion does when its content is a string
DeliversText(c) ==
    \/ sampler.provider = PROVIDERS_CLAUDE
    \/ Has(VendorResponse(sampler.provider, fixture,
                          ChatRequest(sampler, calls[c].params)).choices[1].message.content,
           "str")

\* C8: for a fixture the vendor delivers as the same text in one response
\* and in a stream, the concatenation of the fragments chatStream has
\* yielded, in yield order, is a prefix of the text chat returns for the
\* same request, and is equal to it once the sequence is exhausted, for both
\* variants.
C8_StreamTextPrefixOfChatText ==
    \A c \in StreamCalls :
        LET r == ChatResultFor(c)
        IN  DeliversText(c) =>
                /\ Has(r, "value") /\ Has(r.value.text, "str")
                /\ IsPrefix(Join(calls[c].yielded), r.value.text.str)
                /\ calls[c].result.kind = "done" =>
                       Join(calls[c].yielded) = r.value.text.str

\* C8, witness: the Claude variant's sequence is exhausted after two
\* fragments, for a fixture whose chat text is those two
C8_Witness ==
    \E c \in StreamCalls :
        /\ sampler.provider = PROVIDERS_CLAUDE
        /\ calls[c].result.kind = "done"
        /\ Len(calls[c].yielded) = 2
        /\ ChatResultFor(c).value.text = [str |-> Join(calls[c].yielded)]

\* The text-tagged content of a raw vendor response, in order: the text
\* blocks of an Anthropic message, the string content of an OpenAI choice
RawTextBlocks(raw) ==
    IF Has(raw, "content")
    THEN TextsOf(TextBlocksOf(raw.content))
    ELSE IF raw.choices # <<>> /\ Has(raw.choices[1].message.content, "str")
         THEN <<raw.choices[1].message.content.str>> ELSE <<>>

\* C9: for every vendor response of either variant, the text of the
\* response chat returns is a string, the concatenation in order and with no
\* separator of the text-tagged content of the raw vendor response; content
\* that is not text contributes nothing and causes no error.
C9_TextIsConcatenation ==
    \A c \in ChatCalls :
        (calls[c].pc = "completed" /\ ~Failed(c)) =>
            /\ calls[c].result.kind = "value"
            /\ calls[c].result.value.text =
                   [str |-> Join(RawTextBlocks(calls[c].result.value.raw))]

WellFormedImage == Truthy(img.data) /\ Has(img, "media_type") /\ Truthy(img.media_type)

\* C10: for every pair (data, mediaType), both given and non-empty,
\* translating the Image part with the OpenAI variant and translating the
\* result as an ImageRef with the Claude variant yields an inline base64
\* image with that media type and that data.
C10_ImageRoundTrip ==
    (Len(imgOut) = 2 /\ WellFormedImage) =>
        imgOut[2] = [type |-> "image",
                     source |-> [type |-> "base64",
                                 media_type |-> img.media_type,
                                 data |-> img.data]]

\* The creation that built the sampler of identity id
CreationOf(id) ==
    created[CHOOSE k \in 1..Len(created) : created[k].outcome = [instance |-> id]]

\* The requests built for the vendor so far, each with the request options
\* and the construction config it was resolved from: those of the caller's
\* sampler, and those of the samplers of Sampler.chat
ResolvedRequests ==
    {[request |-> tsent[op], options |-> OptionsOf(treq),
      config |-> created[1].options, self |-> sampler] : op \in DOMAIN tsent}
    \cup
    {[request |-> calls[c].sent[1], options |-> OptionsOf(calls[c].params),
      config |-> CreationOf(calls[c].on).options, self |-> instances[calls[c].on]] :
        c \in {h \in HelperCalls : calls[h].sent # <<>>}}

ProviderDefaultModel(self) ==
    IF self.provider = PROVIDERS_OPENAI THEN "gpt-4o-mini" ELSE "claude-sonnet-4-20250514"

\* C11, as stated: for every chat or chatStream call, the model sent to the
\* vendor is the request's options.model when that is supplied, otherwise
\* the model given at construction when that was supplied, otherwise the
\* provider default.
C11_ModelWhenSupplied ==
    \A r \in ResolvedRequests :
        r.request.model =
            IF Has(r.options, "model") THEN r.options.model
            ELSE IF Has(r.config, "model") THEN r.config.model
            ELSE ProviderDefaultModel(r.self)

\* C11, amended: for every chat or chatStream call, the model sent to the
\* vendor is the request's options.model when that is supplied and not the
\* empty string, otherwise the model given at construction when that was
\* supplied and not the empty string, otherwise the provider default
\* ('gpt-4o-mini' for the OpenAI variant, 'claude-sonnet-4-20250514' for
\* the Claude variant); an empty model is passed over as an absent one is.
C11_ModelWhenNonEmpty ==
    \A r \in ResolvedRequests :
        r.request.model =
            IF Has(r.options, "model") /\ r.options.model # "" THEN r.options.model
            ELSE IF Has(r.config, "model") /\ r.config.model # "" THEN r.config.model
            ELSE ProviderDefaultModel(r.self)

\* C11, witness: a sampler created with provider 'claude' and no model has
\* built both requests for a request whose options.model is the empty
\* string, and sent the Claude default
C11_Witness ==
    /\ DOMAIN tsent = {"chat", "chatStream"}
    /\ created[1].options = [provider |-> ClaudeName]
    /\ Has(OptionsOf(treq), "model") /\ treq.options.model = ""
    /\ tsent.chatStream.model = "claude-sonnet-4-20250514"

\* C12, as stated: for every chat or chatStream call, including calls made
\* through Sampler.chat, the max-tokens value sent to the vendor is the
\* request's options.maxTokens when supplied, otherwise the maxTokens given
\* in the construction config when supplied, otherwise 1024.
C12_MaxTokensWhenSupplied ==
    \A r \in ResolvedRequests :
        r.request.max_tokens =
            IF Has(r.options, "maxTokens") THEN r.options.maxTokens
            ELSE IF Has(r.config, "maxTokens") THEN r.config.maxTokens
            ELSE 1024

\* C12, amended: for every chat or chatStream call, including calls made
\* through Sampler.chat, the max-tokens value sent to the vendor is the
\* request's options.maxTokens when supplied and not 0, otherwise the
\* maxTokens given in the construction config when supplied and not 0,
\* otherwise 1024; a value of 0 is passed over as an absent one is.  The
\* config Sampler.chat constructs with holds no maxTokens, so that a call
\* through it sends options.maxTokens or 1024.
C12_MaxTokensWhenNonZero ==
    /\ \A r \in ResolvedRequests :
          r.request.max_tokens =
              IF Has(r.options, "maxTokens") /\ r.options.maxTokens # 0
              THEN r.options.maxTokens
              ELSE IF Has(r.config, "maxTokens") /\ r.config.maxTokens # 0
              THEN r.config.maxTokens
              ELSE 1024
    /\ \A k \in 1..Len(created) :
          created[k].via = "chat" => ~Has(created[k].options, "maxTokens")

\* C12, witness: Sampler.chat, called with maxTokens 5 beside the model and
\* with no options.maxTokens, has sent 1024
C12_Witness ==
    \E c \in HelperCalls :
        /\ Has(calls[c].params, "maxTokens") /\ calls[c].params.maxTokens = 5
        /\ ~Has(OptionsOf(calls[c].params), "maxTokens")
        /\ calls[c].sent # <<>>
        /\ calls[c].sent[1].max_tokens = 1024

\* s is a casing of name: the same letters, each in either case
IsCasingOf(s, name) ==
    /\ Len(s) = Len(name)
    /\ \A i \in 1..Len(name) : s[i] = name[i] \/ s[i] = UpperOf(name[i])

Recognized(name) == \E n \in RecognizedNames : IsCasingOf(name, n)

\* The variant a recognized name stands for
VariantNamed(name) ==
    IF IsCasingOf(name, OpenAIName) \/ IsCasingOf(name, GptName)
    THEN PROVIDERS_OPENAI ELSE PROVIDERS_CLAUDE

\* The k-th Sampler.create returned a sampler of the variant, with a client
\* of that vendor
ReturnsVariant(k, variant) ==
    /\ Has(created[k].outcome, "instance")
    /\ instances[created[k].outcome.instance].provider = variant
    /\ clients[instances[created[k].outcome.instance].client].vendor = variant

\* C13: Sampler.create resolves the provider name case-insensitively and
\* through aliases: for every casing of 'openai' or 'gpt' it returns the
\* OpenAI variant, and for every casing of 'claude' or 'anthropic' it
\* returns the Claude variant, whatever the process-wide default.
C13_CaseInsensitiveAliases ==
    \A k \in 1..Len(created) :
        LET o == created[k].options
        IN  Has(o, "provider") =>
              /\ (IsCasingOf(o.provider, OpenAIName) \/ IsCasingOf(o.provider, GptName))
                    => ReturnsVariant(k, PROVIDERS_OPENAI)
              /\ (IsCasingOf(o.provider, ClaudeName) \/ IsCasingOf(o.provider, AnthropicName))
                    => ReturnsVariant(k, PROVIDERS_CLAUDE)

\* C13, witness: 'gPt' has given the OpenAI variant where the process-wide
\* default names Claude
C13_Witness ==
    /\ Has(env, "LLM_PROVIDER") /\ env.LLM_PROVIDER = ClaudeName
    /\ \E k \in 1..Len(created) :
          /\ created[k].options = [provider |-> <<"g", "P", "t">>]
          /\ ReturnsVariant(k, PROVIDERS_OPENAI)

\* C14, as stated: for every provider name that is not a recognized name or
\* alias, Sampler.create fails with a ConfigurationError identifying the
\* unknown provider, and constructs no sampler and no vendor client.
C14_UnknownProviderConfigurationError ==
    \A k \in 1..Len(created) :
        LET o == created[k].options
        IN  (Has(o, "provider") /\ ~Recognized(o.provider)) =>
              /\ created[k].outcome =
                     [error |-> [name |-> "ConfigurationError",
                                 unknownProvider |-> o.provider]]
              /\ instances = <<>> /\ clients = <<>>

\* The name the k-th Sampler.create was given, as <<name>>: the config's
\* provider when not empty, else LLM_PROVIDER when set and not empty; <<>>
\* when neither
NameGiven(k) ==
    LET o == created[k].options
    IN  IF Has(o, "provider") /\ o.provider # <<>> THEN <<o.provider>>
        ELSE IF Has(env, "LLM_PROVIDER") /\ env.LLM_PROVIDER # <<>>
        THEN <<env.LLM_PROVIDER>>
        ELSE <<>>

\* C14, amended: for every non-empty provider name, of the config or of
\* LLM_PROVIDER, that is not a recognized name or alias, Sampler.create
\* throws a plain Error whose message names the provider, and constructs no
\* sampler and no vendor client; there is no ConfigurationError.  An empty
\* name is not reported: it is passed over as an absent one is.
C14_UnknownProviderError ==
    \A k \in 1..Len(created) :
        /\ (NameGiven(k) # <<>> /\ ~Recognized(NameGiven(k)[1])) =>
              /\ created[k].outcome =
                     [error |-> [name |-> "Error", unknownProvider |-> NameGiven(k)[1]]]
              /\ instances = <<>> /\ clients = <<>>
        /\ NameGiven(k) = <<>> => Has(created[k].outcome, "instance")

\* C14, witness: create({provider: 'unknown'}) has failed, and nothing is built
C14_Witness ==
    \E k \in 1..Len(created) :
        /\ created[k].options = [provider |-> <<"u","n","k","n","o","w","n">>]
        /\ Has(created[k].outcome, "error")
        /\ instances = <<>> /\ clients = <<>>

\* The k-th Sampler.create went by name: it returned the variant the name
\* stands for, or failed naming it
WentBy(k, name) ==
    IF Recognized(name) THEN ReturnsVariant(k, VariantNamed(name))
    ELSE /\ Has(created[k].outcome, "error")
         /\ created[k].outcome.error.unknownProvider = name

\* C15, as stated: Sampler.create takes the provider from config.provider
\* when given, otherwise from LLM_PROVIDER, otherwise the built-in default,
\* the OpenAI variant; a provider given in config always takes precedence.
C15_ProviderWhenGiven ==
    \A k \in 1..Len(created) :
        LET o == created[k].options
        IN  WentBy(k, IF Has(o, "provider") THEN o.provider
                      ELSE IF Has(env, "LLM_PROVIDER") THEN env.LLM_PROVIDER
                      ELSE OpenAIName)

\* C15, amended: Sampler.create takes the provider from config.provider
\* when given and not empty, otherwise from LLM_PROVIDER when set and not
\* empty, otherwise the built-in default, the OpenAI variant; a non-empty
\* provider given in config always takes precedence over LLM_PROVIDER.
C15_ProviderWhenNonEmpty ==
    \A k \in 1..Len(created) :
        WentBy(k, IF NameGiven(k) # <<>> THEN NameGiven(k)[1] ELSE OpenAIName)

\* C15, witness: with LLM_PROVIDER naming Claude, a create without a
\* provider has given the Claude variant
C15_Witness ==
    /\ Has(env, "LLM_PROVIDER") /\ env.LLM_PROVIDER = ClaudeName
    /\ \E k \in 1..Len(created) :
          /\ created[k].options = Empty
          /\ ReturnsVariant(k, PROVIDERS_CLAUDE)

\* The k-th creation names a vendor and no credential is available for it:
\* no apiKey in its config and none in the environment
NoCredential(k) ==
    LET o == created[k].options
    IN  /\ ~Has(o, "apiKey")
        /\ ~Has(env, IF VariantNamed(o.provider) = PROVIDERS_OPENAI
                     THEN "OPENAI_API_KEY" ELSE "ANTHROPIC_API_KEY")

\* The calls that have ended: a chat, or a chatStream that was consumed
EndedCalls ==
    {c \in CallIds : calls[c].pc = "completed" /\ (calls[c].op = "chat" \/ Consumed(c))}

\* C16, as stated: constructing a sampler when no credential is available
\* succeeds without error; the missing credential is reported as a
\* ConfigurationError when chat or chatStream is first called.
C16_DeferredConfigurationError ==
    \A k \in 1..Len(created) :
        NoCredential(k) =>
            /\ Has(created[k].outcome, "instance")
            /\ \A c \in EndedCalls :
                  /\ calls[c].result.kind = "error"
                  /\ calls[c].result.error.name = "ConfigurationError"

\* C16, amended: the sampler checks no credential and raises no
\* ConfigurationError.  Its constructor hands the vendor client's
\* constructor the key of the config, else of the environment, else none.
\* With no credential available, either the vendor client's constructor
\* throws and Sampler.create fails with that failure, building no sampler,
\* or it returns and each chat or consumed chatStream call ends with the
\* failure the vendor client raises for the request, unchanged; when and
\* how the missing credential is reported is the vendor client's.  With a
\* credential available construction succeeds.
C16_CredentialLeftToVendor ==
    \A k \in 1..Len(created) :
        LET o == created[k].options
        IN  IF NoCredential(k)
            THEN /\ Has(created[k].outcome, "error") =>
                       /\ created[k].outcome.error =
                              [name |-> "VendorCredentialError",
                               vendor |-> VariantNamed(o.provider)]
                       /\ instances = <<>> /\ calls = <<>>
                 /\ Has(created[k].outcome, "instance") =>
                       /\ ~Has(clients[sampler.client], "apiKey")
                       /\ \A c \in EndedCalls :
                             /\ calls[c].raised # <<>>
                             /\ calls[c].result =
                                    [kind |-> "error", error |-> calls[c].raised[1]]
            ELSE /\ ReturnsVariant(k, VariantNamed(o.provider))
                 /\ Has(clients[sampler.client], "apiKey")

\* C16, witness: a sampler was constructed with no credential available,
\* and its first chat has ended with the vendor's authentication failure
C16_Witness ==
    /\ Len(created) = 1 /\ NoCredential(1)
    /\ Has(created[1].outcome, "instance")
    /\ \E c \in EndedCalls :
          /\ calls[c].op = "chat"
          /\ calls[c].result = [kind |-> "error", error |-> [name |-> "AuthenticationError"]]

\* The creations that returned a sampler
Returned == {k \in 1..Len(created) : Has(created[k].outcome, "instance")}

InstanceOf(k) == created[k].outcome.instance

\* C18: every Sampler.create call, also the one Sampler.chat makes, returns
\* a new sampler instance with its own vendor client: no two calls return
\* the same instance or instances with the same client, and the model and
\* maxTokens of an instance are those of the config passed to the call that
\* created it (its model, else the default of its variant; its maxTokens,
\* else 1024), whatever the other calls were passed.
C18_FreshInstancePerCreate ==
    /\ \A j \in Returned : \A k \in Returned :
          j # k =>
             /\ InstanceOf(j) # InstanceOf(k)
             /\ instances[InstanceOf(j)].client # instances[InstanceOf(k)].client
    /\ \A k \in Returned :
          LET o    == created[k].options
              self == instances[InstanceOf(k)]
          IN  /\ self.model =
                     IF Has(o, "model") /\ o.model # "" THEN o.model
                     ELSE ProviderDefaultModel(self)
              /\ self.maxTokens =
                     IF Has(o, "maxTokens") /\ o.maxTokens # 0 THEN o.maxTokens
                     ELSE 1024

\* C18, witness: two creations of the same variant with different models,
\* the second made by Sampler.chat, have returned
C18_Witness ==
    /\ Returned = {1, 2}
    /\ created[1].via = "create" /\ created[2].via = "chat"
    /\ instances[InstanceOf(1)].provider = instances[InstanceOf(2)].provider
    /\ instances[InstanceOf(1)].model = "m2"
    /\ instances[InstanceOf(2)].model = "m1"

\* The request a call sends when it runs alone on the instance as constructed
AloneRequest(c) ==
    IF calls[c].op = "chat"
    THEN ChatRequest(Constructed(sampler.provider), calls[c].params)
    ELSE StreamRequest(Constructed(sampler.provider), calls[c].params)

\* The result chat returns when it runs alone
AloneResult(c) ==
    ChatResult(sampler.provider,
               VendorResponse(sampler.provider, fixture, AloneRequest(c)))

\* C17: with any number of chat and chatStream calls in flight on one
\* sampler instance, under every interleaving of their suspension points,
\* each call sends the vendor the request it sends when run alone, and its
\* own caller gets what it gets when the call runs alone: the response built
\* from the vendor's response to that request, the text fragments of the
\* events read from its own stream, in order, or the failure the vendor
\* raised to it; and no call changes the instance's model, maxTokens or
\* client.
C17_CallsIndependent ==
    /\ sampler = Constructed(sampler.provider)
    /\ \A c \in CallIds :
          /\ calls[c].sent # <<>> => calls[c].sent = <<AloneRequest(c)>>
          /\ calls[c].result.kind = "value" =>
                calls[c].result.value = AloneResult(c).value
          /\ calls[c].op = "chatStream" =>
                calls[c].yielded = EmittedFragments(calls[c].pos)
          /\ calls[c].result.kind = "error" =>
                calls[c].result.error = calls[c].raised[1]

\* C17, witness: a chatStream call is suspended at its yield, with a
\* fragment delivered, when a chat call made after it with another request
\* has returned its response
C17_Witness ==
    /\ Len(calls) = 2
    /\ calls[1].params # calls[2].params
    /\ calls[1].op = "chatStream" /\ calls[1].pc = "suspendedYield"
    /\ Len(calls[1].yielded) = 1
    /\ calls[2].op = "chat" /\ calls[2].result.kind = "value"

\* A structured message whose parts are all Text parts
AllTextParts(msg) ==
    /\ Has(msg.content, "arr")
    /\ \A i \in 1..Len(msg.content.arr) :
          msg.content.arr[i].type = "text" /\ Has(msg.content.arr[i], "text")

\* The concatenation of the text of parts, in order
TextOfParts(parts) == Join([i \in 1..Len(parts) |-> parts[i].text])

\* C19: for every structured message whose parts are all Text parts, each
\* variant translates it, for chat and for chatStream, to a message of the
\* same role whose content is a list of text blocks, one per part, in the
\* parts' order and each with its part's text; so concatenating the text of
\* the translated blocks gives the same string for the OpenAI variant, the
\* Claude variant and the original message.
C19_TextPartsPreserved ==
    \A op \in DOMAIN tsent :
        LET lead == Len(tsent[op].messages) - Len(treq.messages)
        IN  \A i \in 1..Len(treq.messages) :
                LET msg == treq.messages[i]
                    out == tsent[op].messages[i + lead]
                IN  AllTextParts(msg) =>
                       /\ out.role = msg.role
                       /\ Has(out.content, "arr")
                       /\ Len(out.content.arr) = Len(msg.content.arr)
                       /\ \A j \in 1..Len(msg.content.arr) :
                             out.content.arr[j] =
                                 [type |-> "text", text |-> msg.content.arr[j].text]
                       /\ TextOfParts(out.content.arr) = TextOfParts(msg.content.arr)
                       /\ out = OpenAISampler_formatMessage(msg)
                       /\ out = ClaudeSampler_formatMessage(msg)

\* C19, witness: the Claude variant has built both requests for a request
\* with a system prompt whose second message has two Text parts
C19_Witness ==
    /\ sampler.provider = PROVIDERS_CLAUDE
    /\ DOMAIN tsent = {"chat", "chatStream"}
    /\ HasSystemPrompt(treq)
    /\ Len(treq.messages) = 2
    /\ AllTextParts(treq.messages[2])
    /\ Len(treq.messages[2].content.arr) = 2
    /\ TextOfParts(tsent.chat.messages[2].content.arr) = <<"t", "u">>

\* The length of the longest run of characters other than braces from index j
RECURSIVE NameLength(_, _)
NameLength(t, j) ==
    IF j > Len(t) \/ t[j] \in {"{", "}"} THEN 0 ELSE 1 + NameLength(t, j + 1)

\* A {{name}} placeholder written at index i: the length of its name, 0 when
\* there is none
PlaceholderAt(t, i) ==
    LET n == NameLength(t, i + 2)
    IN  IF /\ i + 1 <= Len(t) /\ t[i] = "{" /\ t[i + 1] = "{"
           /\ n >= 1
           /\ i + n + 3 <= Len(t) /\ t[i + n + 2] = "}" /\ t[i + n + 3] = "}"
        THEN n ELSE 0

\* The rendering the statement describes: a placeholder whose trimmed name
\* has a value in the variables becomes that value, everything else stays
RECURSIVE ExpectedFrom(_, _, _)
ExpectedFrom(t, vars0, i) ==
    IF i > Len(t) THEN <<>>
    ELSE LET n == PlaceholderAt(t, i)
             name == Trim(SubSeq(t, i + 2, i + n + 1))
         IN  IF n > 0
             THEN (IF name \in DOMAIN vars0 THEN vars0[name]
                   ELSE SubSeq(t, i, i + n + 3))
                  \o ExpectedFrom(t, vars0, i + n + 4)
             ELSE <<t[i]>> \o ExpectedFrom(t, vars0, i + 1)

\* C20: renderPrompt replaces every {{name}} placeholder whose trimmed name
\* has a defined value in the variables with that value, leaves every
\* placeholder whose name has no defined value exactly as written, leaves
\* all text outside placeholders unchanged, and does not scan the
\* substituted values for placeholders.
C20_RendersPlaceholders ==
    rendered # <<>> => rendered[1] = ExpectedFrom(template, variables, 1)

\* The value a dotted name designates in a document, following only the keys
\* the document holds: <<value>>, or <<>> when some key is missing
RECURSIVE Designated(_, _)
Designated(value, keys) ==
    IF keys = <<>> THEN <<value>>
    ELSE IF Has(value, "obj") /\ Head(keys) \in DOMAIN value.obj
         THEN Designated(value.obj[Head(keys)], Tail(keys))
         ELSE <<>>

\* The prompt strings promptName designates in the loaded prompts
PromptStrings ==
    IF Has(loaded, "error") THEN {}
    ELSE {d[1].str : d \in {e \in {Designated(loaded.doc, Split(promptName))} :
                               e # <<>> /\ Has(e[1], "str")}}

\* C21: getPrompt throws an error for every prompt name that does not
\* designate a prompt string in the loaded prompts (some key of the dotted
\* path is missing), returns the rendered prompt text for every name that
\* does, and never returns a value that is not a string.
C21_GetPromptThrowsUnlessPrompt ==
    \A i \in 1..Len(got) :
        /\ PromptStrings = {} => Has(got[i], "thrown")
        /\ \A p \in PromptStrings :
              got[i] = [returned |-> [str |-> renderPrompt(p, variables)]]
        /\ Has(got[i], "returned") => Has(got[i].returned, "str")

\* The structured messages of the request with their translations in the
\* vendor request op: records [msg, out]
TranslatedPairs(op) ==
    LET lead == Len(tsent[op].messages) - Len(treq.messages)
    IN  {[msg |-> treq.messages[i], out |-> tsent[op].messages[i + lead]] :
            i \in {k \in 1..Len(treq.messages) : Has(treq.messages[k].content, "arr")}}

\* A part that carries raw image data
CarriesData(part) ==
    Has(part, "source") /\ Has(part.source, "data") /\ part.source.data # <<>>

\* A part that carries a URL reference
CarriesUrl(part) == Has(part, "image_url")

\* The data URL of raw image data
DataUrlOf(source) ==
    <<"d","a","t","a",":">>
    \o (IF Has(source, "media_type") /\ source.media_type # <<>>
        THEN source.media_type ELSE <<"i","m","a","g","e","/","j","p","e","g">>)
    \o <<";","b","a","s","e","6","4",",">> \o source.data

\* C22, as stated: in the OpenAI variant's translation every part of type
\* 'image' or 'image_url' becomes an 'image_url' block, a data URL for raw
\* data or the part's URL unchanged, and is emitted in no other shape.
C22_EveryImagePartImageUrl ==
    sampler # Empty /\ sampler.provider = PROVIDERS_OPENAI =>
        \A op \in DOMAIN tsent : \A p \in TranslatedPairs(op) :
            /\ Len(p.out.content.arr) = Len(p.msg.content.arr)
            /\ \A j \in 1..Len(p.msg.content.arr) :
                  LET part == p.msg.content.arr[j]
                      block == p.out.content.arr[j]
                  IN  IsImageType(part) =>
                         /\ block.type = "image_url"
                         /\ DOMAIN block = {"type", "image_url"}

\* C22: in the OpenAI variant's translation of a structured message every
\* part of type 'image' or 'image_url' that carries non-empty raw image data
\* becomes exactly one 'image_url' block whose URL is
\* 'data:<media type>;base64,<data>', the media type being 'image/jpeg' when
\* none is declared; every other such part that carries a URL reference
\* becomes exactly one 'image_url' block with that reference unchanged; an
\* image-typed part with neither is passed on as it is.
C22_ImagePartsWithContent ==
    sampler # Empty /\ sampler.provider = PROVIDERS_OPENAI =>
        \A op \in DOMAIN tsent : \A p \in TranslatedPairs(op) :
            /\ Len(p.out.content.arr) = Len(p.msg.content.arr)
            /\ p.out.role = p.msg.role
            /\ \A j \in 1..Len(p.msg.content.arr) :
                  LET part == p.msg.content.arr[j]
                      block == p.out.content.arr[j]
                  IN  IsImageType(part) =>
                         IF CarriesData(part)
                         THEN block = [type |-> "image_url",
                                       image_url |-> [url |-> DataUrlOf(part.source)]]
                         ELSE IF CarriesUrl(part)
                         THEN block = [type |-> "image_url", image_url |-> part.image_url]
                         ELSE block = part

\* C22, witness: the OpenAI variant has built a chat request from a message
\* with raw data of undeclared media type, an https reference and a data-URL
\* reference
C22_Witness ==
    /\ sampler.provider = PROVIDERS_OPENAI
    /\ Has(tsent, "chat")
    /\ \E p \in TranslatedPairs("chat") :
          /\ Len(p.msg.content.arr) = 3
          /\ p.msg.content.arr[1] = [type |-> "image", source |-> [data |-> <<"x">>]]
          /\ p.out.content.arr[1].image_url.url =
                <<"d","a","t","a",":","i","m","a","g","e","/","j","p","e","g",
                  ";","b","a","s","e","6","4",",","x">>
          /\ p.out.content.arr[2].image_url.url = HttpUrl
          /\ p.out.content.arr[3].image_url.url = PngDataUrl

\* An ImageRef part: an image-typed part that carries a URL and no source
IsImageRef(part) ==
    /\ IsImageType(part) /\ ~Has(part, "source")
    /\ Has(part, "image_url") /\ Has(part.image_url, "url") /\ part.image_url.url # <<>>

\* block is an inline base64 image whose media type and payload are those
\* of the data URL url
DecodedFrom(block, url) ==
    /\ block.type = "image"
    /\ DOMAIN block.source = {"type", "media_type", "data"}
    /\ block.source.type = "base64"
    /\ url = <<"d","a","t","a",":">> \o block.source.media_type
             \o <<";","b","a","s","e","6","4",",">> \o block.source.data

\* C23: in the Claude variant's translation every ImageRef part whose URL
\* begins with 'data:' is emitted as an inline base64 image block carrying
\* the media type and payload decoded from that URL, every ImageRef part
\* with any other URL is emitted as a URL-sourced image block, and a 'data:'
\* URL is never emitted as a URL-sourced image.
C23_DataUrlsInline ==
    sampler # Empty /\ sampler.provider = PROVIDERS_CLAUDE =>
        \A op \in DOMAIN tsent : \A p \in TranslatedPairs(op) :
            \A j \in 1..Len(p.msg.content.arr) :
                LET part == p.msg.content.arr[j]
                    block == p.out.content.arr[j]
                IN  /\ IsImageRef(part) =>
                          IF IsPrefix(<<"d","a","t","a",":">>, part.image_url.url)
                          THEN DecodedFrom(block, part.image_url.url)
                          ELSE block = [type |-> "image",
                                        source |-> [type |-> "url",
                                                    url |-> part.image_url.url]]
                    /\ ~(/\ block.type = "image" /\ Has(block, "source")
                         /\ Has(block.source, "type") /\ block.source.type = "url"
                         /\ IsPrefix(<<"d","a","t","a",":">>, block.source.url))

\* A vendor request without the flag that asks for streaming
WithoutStream(request) == [k \in DOMAIN request \ {"stream"} |-> request[k]]

\* C24: chatStream sends the vendor the same effective model, max tokens,
\* temperature, system prompt placement, translated messages and other
\* request options as chat sends for the same request and sampler; the two
\* vendor requests differ only in the flag that asks for streaming.
C24_StreamRequestAsChatRequest ==
    DOMAIN tsent = {"chat", "chatStream"} =>
        /\ WithoutStream(tsent.chatStream) = tsent.chat
        /\ Has(tsent.chatStream, "stream") /\ tsent.chatStream.stream = TRUE
        /\ ~Has(tsent.chat, "stream")

StreamCallIds == {c \in CallIds : calls[c].op = "chatStream"}

\* C25: the sequence chatStream returns is lazy, finite and non-restartable:
\* calling chatStream sends nothing to the vendor until the consumer
\* requests the first fragment; when the vendor stream ends the sequence
\* ends; after the sequence has ended, by exhaustion, abandonment or error,
\* every further request reports the end, yields no fragment (the fragments
\* delivered never exceed the requests made before the end) and does not
\* contact the vendor again (one vendor request at most, ever).
C25_StreamLazyFiniteOnce ==
    \A c \in StreamCallIds :
        /\ calls[c].requested = 0 =>
              calls[c].sent = <<>> /\ calls[c].stream = "none"
        /\ Len(calls[c].sent) <= 1
        /\ calls[c].stream = "closed" => calls[c].pc = "completed"
        /\ Len(calls[c].yielded) + calls[c].afterEnd <= calls[c].requested
        /\ calls[c].afterEnd > 0 =>
              /\ calls[c].pc = "completed"
              /\ calls[c].result.kind \in {"done", "returned", "error"}

\* C25, witness: a sequence that delivered a fragment, ended with the vendor
\* stream, and was asked for a fragment again
C25_Witness ==
    \E c \in StreamCallIds :
        /\ calls[c].pc = "completed" /\ calls[c].result.kind = "done"
        /\ calls[c].yielded # <<>>
        /\ calls[c].afterEnd >= 1
        /\ Len(calls[c].sent) = 1

\* The vendor events a streaming call has read so far
EventsRead(c) ==
    SubSeq(VendorEvents(sampler.provider, fixture), 1, calls[c].pos)

\* The text a chunk's first choice carries: <<text>>, or <<>> when the chunk
\* has no choices, no delta, no content or empty content
ChunkText(chunk) ==
    IF /\ Len(chunk.choices) >= 1
       /\ "delta" \in DOMAIN chunk.choices[1]
       /\ "content" \in DOMAIN chunk.choices[1].delta
       /\ chunk.choices[1].delta.content # <<>>
    THEN <<chunk.choices[1].delta.content>> ELSE <<>>

\* A streaming call fails only with the failure the vendor raised to it
FailsOnlyAsVendor(c) ==
    calls[c].result.kind = "error" =>
        calls[c].raised # <<>> /\ calls[c].result.error = calls[c].raised[1]

\* C26: in the OpenAI variant's chatStream every vendor chunk whose first
\* choice carries a text delta causes exactly one yield of that text, and
\* every chunk without text content (no choices, no delta, no content, empty
\* content) is skipped, yielding nothing and raising no error, after which
\* streaming goes on with the next chunk: the fragments yielded are the
\* texts of the chunks read, one each, in order.
C26_OpenAIChunksYieldText ==
    sampler.provider = PROVIDERS_OPENAI =>
        \A c \in StreamCallIds :
            /\ calls[c].yielded =
                  Join([i \in 1..calls[c].pos |-> ChunkText(EventsRead(c)[i])])
            /\ FailsOnlyAsVendor(c)

\* C26, witness: an OpenAI stream read to its end, past chunks with empty
\* content, without content, without delta and without choices, that
\* yielded the text of its two text chunks
C26_Witness ==
    /\ sampler.provider = PROVIDERS_OPENAI
    /\ \E c \in StreamCallIds :
          /\ calls[c].result.kind = "done"
          /\ calls[c].pos = Len(VendorEvents(sampler.provider, fixture))
          /\ \E i \in 1..calls[c].pos :
                /\ EventsRead(c)[i].choices # <<>>
                /\ "delta" \notin DOMAIN EventsRead(c)[i].choices[1]
          /\ \E i \in 1..calls[c].pos : EventsRead(c)[i].choices = <<>>
          /\ calls[c].yielded = <<TextA, TextB>>

\* The text fragment an Anthropic event carries: <<text>> for a
\* content_block_delta event with a non-empty text, else <<>>
EventText(event) ==
    IF /\ event.type = "content_block_delta"
       /\ "delta" \in DOMAIN event
       /\ "text" \in DOMAIN event.delta
       /\ event.delta.text # <<>>
    THEN <<event.delta.text>> ELSE <<>>

\* C27: in the Claude variant's chatStream a vendor event causes a yield if
\* and only if it is a content_block_delta event carrying a text fragment,
\* and the yield is of that fragment; every other event (message start,
\* delta and stop, block start and stop, a delta without text) is skipped,
\* yielding nothing and raising no error: the fragments yielded are the
\* texts of the events read, one each, in order.
C27_ClaudeTextDeltasYield ==
    sampler.provider = PROVIDERS_CLAUDE =>
        \A c \in StreamCallIds :
            /\ calls[c].yielded =
                  Join([i \in 1..calls[c].pos |-> EventText(EventsRead(c)[i])])
            /\ FailsOnlyAsVendor(c)

\* C27, witness: a Claude stream read to its end, whose events were a text
\* delta, a delta without text and the start and stop events, that yielded
\* the one text fragment
C27_Witness ==
    /\ sampler.provider = PROVIDERS_CLAUDE
    /\ \E c \in StreamCallIds :
          /\ calls[c].result.kind = "done"
          /\ calls[c].pos = Len(VendorEvents(sampler.provider, fixture))
          /\ \E i \in 1..calls[c].pos :
                /\ EventsRead(c)[i].type = "content_block_delta"
                /\ "text" \notin DOMAIN EventsRead(c)[i].delta
          /\ \E i \in 1..calls[c].pos : EventsRead(c)[i].type = "message_delta"
          /\ calls[c].yielded = <<TextA>>

\* C28: chat and chatStream leave the caller's request unchanged: after any
\* of the calls the caller's systemPrompt, messages list (length, order,
\* roles, content parts) and options are the same as before the call, for
\* both variants.
C28_RequestUnchanged ==
    /\ DOMAIN tafter = DOMAIN treq
    /\ \A f \in DOMAIN treq : tafter[f] = treq[f]
    /\ Has(treq, "messages") =>
          /\ Len(tafter.messages) = Len(treq.messages)
          /\ \A i \in 1..Len(treq.messages) : tafter.messages[i] = treq.messages[i]

\* C28, witness: both calls have been made by the OpenAI variant with a
\* request that has a system prompt, options and a structured message with
\* image parts
C28_Witness ==
    /\ sampler # Empty /\ sampler.provider = PROVIDERS_OPENAI
    /\ DOMAIN tsent = {"chat", "chatStream"}
    /\ HasSystemPrompt(treq) /\ Has(treq, "options")
    /\ \E i \in 1..Len(treq.messages) :
          /\ Has(treq.messages[i].content, "arr")
          /\ \E j \in 1..Len(treq.messages[i].content.arr) :
                IsImageType(treq.messages[i].content.arr[j])
    /\ tafter = treq

\* C29: in the handler of POST /api/openai, which keeps hasAudio, text and
\* result in variables shared by all requests, with any number of requests
\* in flight and under every interleaving of their awaits, each request
\* receives exactly one HTTP response (none while its handler awaits the
\* vendor, one when it has returned), and a successful response carries the
\* text of the vendor's reply to that same request, never that of another
\* request's reply.
C29_OwnReplyOneResponse ==
    \A r \in 1..Len(requests) :
        /\ requests[r].pc = "awaitCreate" => requests[r].responses = <<>>
        /\ requests[r].pc = "done" => Len(requests[r].responses) = 1
        /\ requests[r].pc \in {"awaitCreate", "done"}
        /\ \A i \in 1..Len(requests[r].responses) :
              requests[r].responses[i].status = 200 =>
                  /\ requests[r].reply # <<>>
                  /\ requests[r].responses[i].body = [text |-> [k \in 1..r |-> "a"]]
                  /\ LET message == requests[r].reply[1].choices[1].message
                     IN  requests[r].responses[i].body.text
                            = IF "str" \in DOMAIN message.content
                              THEN message.content.str ELSE message.audio.transcript

\* C29, witness: two requests were in flight at once, the vendor answered
\* the second before the first, and both were answered with their own text
C29_Witness ==
    /\ Len(requests) >= 2
    /\ requests[1].pc = "done" /\ requests[2].pc = "done"
    /\ requests[1].responses = <<[status |-> 200, body |-> [text |-> <<"a">>]]>>
    /\ requests[2].responses = <<[status |-> 200, body |-> [text |-> <<"a", "a">>]]>>
    /\ shared.text = <<"a">>

\* C30: the database selection of POST /query is optional: a request with a
\* non-empty query and no database passes validation, its query is executed
\* and its columns and rows are returned; only a request without a query
\* is rejected with status 400, and nothing is executed for it.
C30_DatabaseOptional ==
    \A r \in 1..Len(requests) :
        LET req == requests[r]
            hasQuery == "query" \in DOMAIN req.body /\ req.body.query # <<>>
        IN  /\ (hasQuery /\ "database" \notin DOMAIN req.body) =>
                  /\ req.pc # "done" \/ req.executed = <<req.body.query>>
                  /\ \A i \in 1..Len(req.responses) :
                        \/ /\ req.responses[i].status = 200
                           /\ DOMAIN req.responses[i].body = {"columns", "rows"}
                        \/ /\ req.executed # <<>>
                           /\ req.responses[i].status = 500
            /\ \A i \in 1..Len(req.responses) :
                  req.responses[i].status = 400 <=> ~hasQuery
            /\ ~hasQuery => req.executed = <<>>

====
